---------------------------- MODULE Spec2Model ----------------------------
(***************************************************************************)
(* A model of the grievance backend (src/index.js): the record store, the  *)
(* Telegram gateway, the getUpdates poller with its command interpreter,   *)
(* and the HTTP submission handlers.                                       *)
(*                                                                         *)
(* Conventions.                                                            *)
(*  - A JavaScript string is a sequence of atoms.  An atom is a white      *)
(*    space character (" " or "\n") or an opaque chunk of one or more      *)
(*    non-white-space characters ("reply", "id:", "1", "hi").              *)
(*  - An optional value (SQL NULL, JS null/undefined) is a sequence of     *)
(*    length 0 (Null) or 1 (Some(v)).                                      *)
(*  - A handler is cut at its awaits: one action is the synchronous code   *)
(*    between two awaits.  A store query takes effect in the step that     *)
(*    resumes its caller; an outbound message is recorded in the step      *)
(*    that issues it.                                                      *)
(***************************************************************************)
EXTENDS Integers, Sequences, FiniteSets

VARIABLES
  env,             \* process.env as read at startup
  setup,           \* the ensureTables() call of startup: "pending", "ok", "exited"
  clock,           \* the wall clock (Date.now(), SQL now()), in ticks
  grievances,      \* table grievances: id -> row
  moods,           \* table moods: serial id -> row
  moodSerial,      \* the SERIAL sequence of moods.id
  diary_notes,     \* table diary_notes: id -> row
  tgUpdateOffset,  \* the update cursor
  updates,         \* the provider's inbound updates; update_id = index
  polls,           \* the pollTelegramUpdates runs started so far
  dispatched,      \* history: update_id -> times handed to the interpreter
  replies,         \* history: update_id -> sendTelegramTo calls made for it
  reqs,            \* the HTTP requests received so far
  gw               \* the last gateway call (inputs, attempts, result)

vars == <<env, setup, clock, grievances, moods, moodSerial, diary_notes,
          tgUpdateOffset, updates, polls, dispatched, replies, reqs, gw>>

storeVars == <<grievances, moods, moodSerial, diary_notes>>
pollVars == <<tgUpdateOffset, updates, polls, dispatched, replies>>

\* process.exit(1) has not been called: timers and handlers still run.
Alive == setup # "exited"

-----------------------------------------------------------------------------
(* Bounds of the model.                                                    *)

\* The largest value the clock reaches.
MaxClock == 2

-----------------------------------------------------------------------------
(* Optional values and strings.                                            *)

Null == <<>>
Some(v) == <<v>>
IsNull(o) == Len(o) = 0

Max(a, b) == IF a >= b THEN a ELSE b

\* The characters \s matches and String.prototype.trim() strips.
WS == {" ", "\n"}

\* Atoms whose first character is not a word character ([A-Za-z0-9_]).
NonWordStart == WS \cup {"/clear", "/confirm_clear", "/CLEAR", "/Confirm_Clear", "@bot"}

\* String.prototype.toLowerCase / the regular expressions' i flag, on an atom.
Lower(a) ==
  CASE a = "/CLEAR" -> "/clear"
    [] a = "/Confirm_Clear" -> "/confirm_clear"
    [] a = "Delete_Diary" -> "delete_diary"
    [] a = "REPLY" -> "reply"
    [] a = "ID" -> "id"
    [] a = "Id:" -> "id:"
    [] OTHER -> a

\* Number.prototype.toString() of a clock value below ten.
Digits == <<"1", "2", "3", "4", "5", "6", "7", "8", "9">>
NumToString(n) == <<Digits[n]>>

\* The index of the first atom at or after i that is not white space
\* (Len(s) + 1 when there is none): what a greedy \s* skips.
SkipWs(s, i) ==
  IF \E k \in i..Len(s) : s[k] \notin WS
  THEN CHOOSE k \in i..Len(s) : s[k] \notin WS /\ \A m \in i..(k - 1) : s[m] \in WS
  ELSE Len(s) + 1

\* The index of the first white-space atom at or after i (Len(s) + 1 when
\* there is none): where a greedy \S+ stops.
SkipNonWs(s, i) ==
  IF \E k \in i..Len(s) : s[k] \in WS
  THEN CHOOSE k \in i..Len(s) : s[k] \in WS /\ \A m \in i..(k - 1) : s[m] \notin WS
  ELSE Len(s) + 1

\* The index of the last atom that is not white space (0 when there is none).
LastNonWs(s) ==
  IF \E k \in 1..Len(s) : s[k] \notin WS
  THEN CHOOSE k \in 1..Len(s) : s[k] \notin WS /\ \A m \in (k + 1)..Len(s) : s[m] \in WS
  ELSE 0

\* String.prototype.trim().
Trim(s) == SubSeq(s, SkipWs(s, 1), LastNonWs(s))

-----------------------------------------------------------------------------
(* Configuration (src/index.js:42-46).                                     *)

\* TELEGRAM_ADMIN_ID = (env.TELEGRAM_ADMIN_ID || env.TELEGRAM_CHAT_ID || "") + ""
TELEGRAM_ADMIN_ID ==
  IF env.TELEGRAM_ADMIN_ID # "" THEN env.TELEGRAM_ADMIN_ID ELSE env.TELEGRAM_CHAT_ID

\* The environment of a fully configured deployment: the admin identity
\* defaults to the broadcast chat.
EnvConfigured ==
  [TELEGRAM_BOT_TOKEN |-> "tok", TELEGRAM_CHAT_ID |-> "100", TELEGRAM_ADMIN_ID |-> ""]

\* Every environment: each of the three settings present or missing.
EnvAll ==
  [TELEGRAM_BOT_TOKEN : {"", "tok"}, TELEGRAM_CHAT_ID : {"", "100"},
   TELEGRAM_ADMIN_ID : {"", "300"}]

-----------------------------------------------------------------------------
(* The record store (PostgreSQL tables, src/index.js:59-107).              *)

EmptyTable == [k \in {} |-> Null]

\* A table without its primary key constraint.
ConflictNever(t, k) == FALSE

\* id TEXT PRIMARY KEY: an INSERT under a key the table holds throws.
Conflict(t, k) == k \in DOMAIN t

\* INSERT of one row under key k (the caller has checked the primary key).
InsertRow(t, k, row) == [x \in DOMAIN t \cup {k} |-> IF x = k THEN row ELSE t[x]]

\* A DELETE that would ignore its WHERE clause.
DeleteEveryRow(t, k) == [x \in {} |-> t[x]]

\* DELETE ... WHERE id = k.
DeleteRow(t, k) == [x \in DOMAIN t \ {k} |-> t[x]]

\* The rowCount of a DELETE without WHERE.
RowCount(t) == Cardinality(DOMAIN t)

\* UPDATE grievances SET reply = $1, replied_at = now() WHERE id = $2
UpdateReplyNoStamp(t, id, reply) ==
  IF id \in DOMAIN t THEN [t EXCEPT ![id].reply = Some(reply)] ELSE t

\* An UPDATE that would ignore its WHERE clause.
UpdateReplyEveryRow(t, id, reply) ==
  [x \in DOMAIN t |-> [t[x] EXCEPT !.reply = Some(reply), !.replied_at = Some(clock)]]

\* An UPDATE that would also write the reply over the text.
UpdateReplyAndText(t, id, reply) ==
  IF id \in DOMAIN t
  THEN [t EXCEPT ![id].reply = Some(reply), ![id].replied_at = Some(clock),
                 ![id].text = Some(reply)]
  ELSE t

UpdateReply(t, id, reply) ==
  IF id \in DOMAIN t
  THEN [t EXCEPT ![id].reply = Some(reply), ![id].replied_at = Some(clock)]
  ELSE t

-----------------------------------------------------------------------------
(* The command interpreter's classification (src/index.js:267-372).        *)

Falsy(o) == IsNull(o) \/ o[1] = <<>>

\* const rawText = (msg.text || msg.caption || "").trim();
RawTextUntrimmed(msg) ==
  IF ~Falsy(msg.text) THEN msg.text[1]
  ELSE IF ~Falsy(msg.caption) THEN msg.caption[1] ELSE <<>>

RawText(msg) == Trim(RawTextUntrimmed(msg))

\* /^\/clear\b/i and /^\/confirm_clear\b/i: the keyword, then a word boundary.
MatchesWord(text, word) ==
  /\ Len(text) >= 1
  /\ Lower(text[1]) = word
  /\ (Len(text) = 1 \/ text[2] \in NonWordStart)

NoMatch == [ok |-> FALSE, id |-> <<>>, replyText |-> <<>>]

\* /^delete_diary\s+(\S+)/i
DelDiaryMatch(text) ==
  IF Len(text) >= 3 /\ Lower(text[1]) = "delete_diary" /\ text[2] \in WS
     /\ SkipWs(text, 2) <= Len(text)
  THEN LET a == SkipWs(text, 2)
       IN [ok |-> TRUE, id |-> SubSeq(text, a, SkipNonWs(text, a) - 1), replyText |-> <<>>]
  ELSE NoMatch

\* (\S+)\s+([\s\S]+) from index a of text, then .trim() of the second group.
TokenAndRestUntrimmed(text, a) ==
  LET b == SkipNonWs(text, a)
      c == SkipWs(text, b)
  IN IF a <= Len(text) /\ b > a /\ b <= Len(text) /\ c <= Len(text)
     THEN [ok |-> TRUE, id |-> SubSeq(text, a, b - 1),
           replyText |-> SubSeq(text, b, Len(text))]
     ELSE NoMatch

TokenAndRest(text, a) ==
  LET b == SkipNonWs(text, a)
      c == SkipWs(text, b)
  IN IF a <= Len(text) /\ b > a /\ b <= Len(text) /\ c <= Len(text)
     THEN [ok |-> TRUE, id |-> SubSeq(text, a, b - 1),
           replyText |-> Trim(SubSeq(text, c, Len(text)))]
     ELSE NoMatch

\* /^(?:reply)\s+(\S+)\s+([\s\S]+)/i
ReplyMatch(text) ==
  IF Len(text) >= 2 /\ Lower(text[1]) = "reply" /\ text[2] \in WS
  THEN TokenAndRest(text, SkipWs(text, 2))
  ELSE NoMatch

\* /^(?:id[:#]?)\s*(\S+)\s+([\s\S]+)/i
\* When nothing follows the token, the matcher backtracks: [:#]? matches
\* nothing, and the separator itself becomes the token.
IdMatch(text) ==
  IF Len(text) >= 2 /\ Lower(text[1]) \in {"id", "id:", "id#"}
  THEN IF TokenAndRest(text, SkipWs(text, 2)).ok
       THEN TokenAndRest(text, SkipWs(text, 2))
       ELSE IF Lower(text[1]) # "id" /\ text[2] \in WS
       THEN [ok |-> TRUE,
             id |-> IF Lower(text[1]) = "id:" THEN <<":">> ELSE <<"#">>,
             replyText |-> Trim(SubSeq(text, 2, Len(text)))]
       ELSE NoMatch
  ELSE NoMatch

\* The branch of the interpreter a trimmed text takes, with the id and the
\* reply text it extracts.
Classify(text) ==
  IF MatchesWord(text, "/clear") THEN [cmd |-> "clear", id |-> <<>>, replyText |-> <<>>]
  ELSE IF MatchesWord(text, "/confirm_clear")
    THEN [cmd |-> "confirm_clear", id |-> <<>>, replyText |-> <<>>]
  ELSE IF DelDiaryMatch(text).ok
    THEN [cmd |-> "delete_diary", id |-> DelDiaryMatch(text).id, replyText |-> <<>>]
  ELSE IF ReplyMatch(text).ok
    THEN [cmd |-> "reply", id |-> ReplyMatch(text).id, replyText |-> ReplyMatch(text).replyText]
  ELSE IF IdMatch(text).ok
    THEN [cmd |-> "reply", id |-> IdMatch(text).id, replyText |-> IdMatch(text).replyText]
  ELSE [cmd |-> "none", id |-> <<>>, replyText |-> <<>>]

-----------------------------------------------------------------------------
(* The poller and the command interpreter                                  *)
(* (pollTelegramUpdates, src/index.js:238-421).                            *)

\* A run of pollTelegramUpdates.  pc is the await the run is suspended at:
\*   "fetch"    await fetch(url) / res.json()          (index.js:245-246)
\*   "loop"     the body is parsed, or a sendTelegramTo is awaited: the run
\*              resumes with the next update of the batch
\*   "delG", "delM", "delD"   the three DELETEs of /confirm_clear (298-300)
\*   "delDiary" DELETE FROM diary_notes WHERE id=$1    (index.js:334)
\*   "update"   UPDATE grievances SET reply ...        (index.js:389)
\*   "done"     the run has returned
\* offset is the offset of its getUpdates request, hi the last update_id of
\* the batch it received, i the update_id it is handling (or handled last),
\* delG and delM the row counts of the DELETEs already made.  pre and mixed
\* are history: the table sizes when the /confirm_clear being handled was
\* dispatched, and whether a submission was stored since.  failed is
\* history too: the run ended because its getUpdates call failed.
NewPoll ==
  [pc |-> "fetch", offset |-> tgUpdateOffset + 1, hi |-> 0, i |-> 0,
   delG |-> 0, delM |-> 0, pre |-> <<0, 0, 0>>, mixed |-> FALSE, failed |-> FALSE]

ClearPcs == {"delG", "delM", "delD"}

\* An interpreter that would read update.message only.
HasMsgNewOnly(u) == u.kind = "message"

\* const msg = update.message || update.edited_message;
HasMsg(u) == u.kind \in {"message", "edited_message"}

\* const fromChatId = msg.chat && msg.chat.id ? msg.chat.id.toString() : null;
FromChatId(u) == u.chat

IsAdmin(u) == FromChatId(u) = TELEGRAM_ADMIN_ID

\* An interpreter that would read reply commands of the admin only.
CmdReplyAdminOnly(u) ==
  IF IsAdmin(u) THEN Classify(RawText(u))
  ELSE [Classify(RawText(u)) EXCEPT !.cmd = IF @ = "reply" THEN "none" ELSE @]

\* An interpreter that would take /clear for /confirm_clear.
CmdClearConfirms(u) ==
  [Classify(RawText(u)) EXCEPT !.cmd = IF @ = "clear" THEN "confirm_clear" ELSE @]

Cmd(u) == Classify(RawText(u))

\* if (fromChatId !== TELEGRAM_ADMIN_ID) { ...not authorized...; continue; }
\* for update j: the guards of /clear, /confirm_clear and delete_diary.
MayClear(j) == IsAdmin(updates[j])

MayConfirmClearAnyone(j) == TRUE

MayConfirmClearAfterClear(j) ==
  /\ IsAdmin(updates[j])
  /\ \E k \in 1..(j - 1) :
       /\ HasMsg(updates[k])
       /\ FromChatId(updates[k]) = FromChatId(updates[j])
       /\ Cmd(updates[k]).cmd = "clear"

MayConfirmClear(j) == IsAdmin(updates[j])

MayDeleteDiary(j) == IsAdmin(updates[j])

\* Whether the interpreter awaits anything for update u: it does not when
\* there is no message (index.js:254) and when an unrecognised text comes
\* from a sender other than the admin (index.js:374-383).
Awaits(u) == HasMsg(u) /\ (Cmd(u).cmd # "none" \/ IsAdmin(u))

\* The first update after i, up to hi, that the interpreter awaits on
\* (hi + 1 when there is none): the for loop runs synchronously up to it.
NextStop(i, hi) ==
  IF \E j \in (i + 1)..hi : Awaits(updates[j])
  THEN CHOOSE j \in (i + 1)..hi :
         Awaits(updates[j]) /\ \A k \in (i + 1)..(j - 1) : ~Awaits(updates[k])
  ELSE hi + 1

\* One sendTelegramTo(fromChatId, <message>, null) call made for update j.
Msg(to, kind, id, text, counts) ==
  [to |-> to, kind |-> kind, id |-> id, text |-> text, counts |-> counts]

Plain(to, kind) == Msg(to, kind, <<>>, <<>>, <<0, 0, 0>>)

Reply(j, m) == [replies EXCEPT ![j] = Append(@, m)]

\* A timer that would skip a tick while an earlier run has not finished.
TickCoalesced(MaxPolls) ==
  /\ Alive
  /\ \A p \in DOMAIN polls : polls[p].pc = "done"
  /\ Len(polls) < MaxPolls
  /\ env.TELEGRAM_BOT_TOKEN # ""
  /\ polls' = Append(polls, NewPoll)
  /\ UNCHANGED <<env, setup, clock, storeVars, tgUpdateOffset, updates, dispatched, replies, reqs, gw>>

\* setInterval(() => pollTelegramUpdates(), 3000): a timer tick starts a run,
\* which builds its url from the cursor and issues the fetch.
Tick(MaxPolls) ==
  /\ Alive
  /\ Len(polls) < MaxPolls
  /\ env.TELEGRAM_BOT_TOKEN # ""
  /\ polls' = Append(polls, NewPoll)
  /\ UNCHANGED <<env, setup, clock, storeVars, tgUpdateOffset, updates, dispatched, replies, reqs, gw>>

\* The provider receives a message (or another kind of update) from a chat.
TgNewUpdate(Inbound, MaxInbound) ==
  /\ Len(updates) < MaxInbound
  /\ \E u \in Inbound : updates' = Append(updates, u)
  /\ dispatched' = Append(dispatched, 0)
  /\ replies' = Append(replies, <<>>)
  /\ UNCHANGED <<env, setup, clock, storeVars, tgUpdateOffset, polls, reqs, gw>>

\* if (!body.ok || !Array.isArray(body.result) || body.result.length === 0) return;
\* the update_ids of the batch the loop runs over.
BatchIgnoringOk(ok, offset) == offset..Len(updates)

\* The getUpdates call returns: it fails (network error, a body that is not
\* JSON, ok:false) or yields the updates from offset on.  An empty result
\* ends the run.
Batch(ok, offset) == IF ok THEN offset..Len(updates) ELSE {}

FetchReturn(p) ==
  /\ Alive
  /\ polls[p].pc = "fetch"
  /\ \E ok \in BOOLEAN :
       polls' = [polls EXCEPT ![p] =
         IF Batch(ok, polls[p].offset) # {}
         THEN [@ EXCEPT !.pc = "loop", !.hi = Len(updates), !.i = polls[p].offset - 1,
                        !.failed = ~ok]
         ELSE [@ EXCEPT !.pc = "done", !.failed = ~ok]]
  /\ UNCHANGED <<env, setup, clock, storeVars, tgUpdateOffset, updates, dispatched, replies, reqs, gw>>

\* if (update.update_id && update.update_id > tgUpdateOffset) tgUpdateOffset = update.update_id;
\* for every update the loop has reached, up to update_id j.
AdvanceOffsetNever(cur, j) == cur

AdvanceOffsetAssign(cur, j) == j

AdvanceOffset(cur, j) == Max(cur, j)

\* The run resumes in the for loop: it passes over the updates it does not
\* await on, then handles the next one up to its first await.
Loop(p) ==
  /\ Alive
  /\ polls[p].pc = "loop"
  /\ LET q == polls[p]
         j == NextStop(q.i, q.hi)
         seen == IF j > q.hi THEN q.hi ELSE j
         u == updates[j]
         c == Cmd(u)
         to == FromChatId(u)
     IN /\ tgUpdateOffset' = AdvanceOffset(tgUpdateOffset, seen)
        /\ dispatched' = [k \in DOMAIN dispatched |->
             IF k > q.i /\ k <= seen /\ HasMsg(updates[k])
             THEN dispatched[k] + 1 ELSE dispatched[k]]
        /\ IF j > q.hi
           THEN /\ polls' = [polls EXCEPT ![p].pc = "done", ![p].i = q.hi]
                /\ replies' = replies
           ELSE IF c.cmd = "clear"
           THEN /\ polls' = [polls EXCEPT ![p].i = j]
                /\ replies' = Reply(j, Plain(to,
                     IF MayClear(j) THEN "confirm_warning" ELSE "not_authorized_clear"))
           ELSE IF c.cmd = "confirm_clear"
           THEN IF ~MayConfirmClear(j)
                THEN /\ polls' = [polls EXCEPT ![p].i = j]
                     /\ replies' = Reply(j, Plain(to, "not_authorized_clear"))
                ELSE /\ polls' = [polls EXCEPT ![p].i = j, ![p].pc = "delG",
                          ![p].pre = <<RowCount(grievances), RowCount(moods),
                                       RowCount(diary_notes)>>,
                          ![p].mixed = FALSE]
                     /\ replies' = replies
           ELSE IF c.cmd = "delete_diary"
           THEN IF ~MayDeleteDiary(j)
                THEN /\ polls' = [polls EXCEPT ![p].i = j]
                     /\ replies' = Reply(j, Plain(to, "not_authorized_diary"))
                ELSE /\ polls' = [polls EXCEPT ![p].i = j, ![p].pc = "delDiary"]
                     /\ replies' = replies
           ELSE IF c.cmd = "reply"
           THEN /\ polls' = [polls EXCEPT ![p].i = j, ![p].pc = "update"]
                /\ replies' = replies
           ELSE /\ polls' = [polls EXCEPT ![p].i = j]
                /\ replies' = Reply(j, Plain(to, "help"))
  /\ UNCHANGED <<env, setup, clock, storeVars, updates, reqs, gw>>

\* A bulk clear that would go on to the next DELETE after a failed one.
ClearDelGGoesOn(p) ==
  /\ Alive
  /\ polls[p].pc = "delG"
  /\ \E ok \in BOOLEAN :
       /\ grievances' = IF ok THEN EmptyTable ELSE grievances
       /\ polls' = [polls EXCEPT ![p].pc = "delM",
                                 ![p].delG = IF ok THEN RowCount(grievances) ELSE 0]
  /\ UNCHANGED <<env, setup, clock, moods, moodSerial, diary_notes, tgUpdateOffset, updates,
                 dispatched, replies, reqs, gw>>

\* const delG = await pool.query("DELETE FROM grievances"): the query runs
\* (or throws) and the run goes on to issue the next one.
ClearDelG(p) ==
  /\ Alive
  /\ polls[p].pc = "delG"
  /\ LET j == polls[p].i
     IN \E ok \in BOOLEAN :
          IF ok
          THEN /\ grievances' = EmptyTable
               /\ polls' = [polls EXCEPT ![p].pc = "delM", ![p].delG = RowCount(grievances)]
               /\ replies' = replies
          ELSE /\ grievances' = grievances
               /\ polls' = [polls EXCEPT ![p].pc = "loop"]
               /\ replies' = Reply(j, Plain(FromChatId(updates[j]), "delete_failed"))
  /\ UNCHANGED <<env, setup, clock, moods, moodSerial, diary_notes, tgUpdateOffset, updates,
                 dispatched, reqs, gw>>

\* const delM = await pool.query("DELETE FROM moods");
ClearDelM(p) ==
  /\ Alive
  /\ polls[p].pc = "delM"
  /\ LET j == polls[p].i
     IN \E ok \in BOOLEAN :
          IF ok
          THEN /\ moods' = EmptyTable
               /\ polls' = [polls EXCEPT ![p].pc = "delD", ![p].delM = RowCount(moods)]
               /\ replies' = replies
          ELSE /\ moods' = moods
               /\ polls' = [polls EXCEPT ![p].pc = "loop"]
               /\ replies' = Reply(j, Plain(FromChatId(updates[j]), "delete_failed"))
  /\ UNCHANGED <<env, setup, clock, grievances, moodSerial, diary_notes, tgUpdateOffset, updates,
                 dispatched, reqs, gw>>

\* The three counts of the "Deleted ..." reply (index.js:301-307), from the
\* row counts of the three DELETEs.
DeletedCounts(g, m, d) == <<g, m, d>>

\* const delD = await pool.query("DELETE FROM diary_notes"); then the reply
\* with the three counts.
ClearDelD(p) ==
  /\ Alive
  /\ polls[p].pc = "delD"
  /\ LET j == polls[p].i
         to == FromChatId(updates[j])
     IN \E ok \in BOOLEAN :
          IF ok
          THEN /\ diary_notes' = EmptyTable
               /\ polls' = [polls EXCEPT ![p].pc = "loop"]
               /\ replies' = Reply(j, Msg(to, "deleted", <<>>, <<>>,
                    DeletedCounts(polls[p].delG, polls[p].delM, RowCount(diary_notes))))
          ELSE /\ diary_notes' = diary_notes
               /\ polls' = [polls EXCEPT ![p].pc = "loop"]
               /\ replies' = Reply(j, Plain(to, "delete_failed"))
  /\ UNCHANGED <<env, setup, clock, grievances, moods, moodSerial, tgUpdateOffset, updates,
                 dispatched, reqs, gw>>

\* DELETE FROM diary_notes WHERE id=$1 RETURNING * for delete_diary <id>.
DeleteDiaryCmd(p) ==
  /\ Alive
  /\ polls[p].pc = "delDiary"
  /\ LET j == polls[p].i
         to == FromChatId(updates[j])
         delId == Cmd(updates[j]).id
     IN \E ok \in BOOLEAN :
          IF ~ok
          THEN /\ diary_notes' = diary_notes
               /\ replies' = Reply(j, Msg(to, "diary_failed", delId, <<>>, <<0, 0, 0>>))
          ELSE IF delId \notin DOMAIN diary_notes
          THEN /\ diary_notes' = diary_notes
               /\ replies' = Reply(j, Msg(to, "diary_not_found", delId, <<>>, <<0, 0, 0>>))
          ELSE /\ diary_notes' = DeleteRow(diary_notes, delId)
               /\ replies' = Reply(j, Msg(to, "diary_deleted", delId, <<>>, <<0, 0, 0>>))
  /\ polls' = [polls EXCEPT ![p].pc = "loop"]
  /\ UNCHANGED <<env, setup, clock, grievances, moods, moodSerial, tgUpdateOffset, updates,
                 dispatched, reqs, gw>>

\* The UPDATE of a reply command (index.js:386-413): "not found" when no
\* row has the id, else the echo of the recorded reply.
RecordReply(p) ==
  /\ Alive
  /\ polls[p].pc = "update"
  /\ LET j == polls[p].i
         to == FromChatId(updates[j])
         id == Cmd(updates[j]).id
         replyText == Cmd(updates[j]).replyText
     IN \E ok \in BOOLEAN :
          IF ~ok
          THEN /\ grievances' = grievances
               /\ replies' = Reply(j, Msg(to, "reply_failed", id, <<>>, <<0, 0, 0>>))
          ELSE IF id \notin DOMAIN grievances
          THEN /\ grievances' = grievances
               /\ replies' = Reply(j, Msg(to, "grievance_not_found", id, <<>>, <<0, 0, 0>>))
          ELSE /\ grievances' = UpdateReply(grievances, id, replyText)
               /\ replies' = Reply(j, Msg(to, "reply_recorded", id, replyText, <<0, 0, 0>>))
  /\ polls' = [polls EXCEPT ![p].pc = "loop"]
  /\ UNCHANGED <<env, setup, clock, moods, moodSerial, diary_notes, tgUpdateOffset, updates,
                 dispatched, reqs, gw>>

\* The wall clock advances.
ClockTick ==
  /\ clock < MaxClock
  /\ clock' = clock + 1
  /\ UNCHANGED <<env, setup, storeVars, pollVars, reqs, gw>>

-----------------------------------------------------------------------------
(* The notification gateway (src/index.js:123-235, 456-549).               *)

\* What the provider answers to one sendMessage request: ok, an error whose
\* description names a markup-parsing problem, another error, a body that
\* is not JSON, or no answer at all (fetch throws).
ParseErrors == {"can't parse entities", "unsupported start tag", "can't parse"}
Responses == {"ok", "bad request", "not json", "network error"} \cup ParseErrors

NoResult == [ok |-> FALSE, reason |-> "none", attempt |-> 0]

\* desc.includes("can't parse entities") || desc.includes("unsupported start tag")
\*   || desc.includes("can't parse")
IsParseErrorAny(r) == r # "ok"

IsParseError(r) == r \in ParseErrors

\* let body = { chat_id, text }; if (parse_mode) body.parse_mode = parse_mode;
SendBody(chat_id, text, parse_mode) ==
  [chat_id |-> chat_id, text |-> text, parse_mode |-> parse_mode]

\* The body of the second attempt (index.js:159, 214): no parse_mode.
PlainBody(chat_id, text, parse_mode) == SendBody(chat_id, text, Null)

\* What one awaited attempt yields: data (resp.json(), or {ok:false} when
\* the body is not JSON), or the exception the catch turns into a result.
AttemptResult(r, n) ==
  IF r = "network error" THEN [ok |-> FALSE, reason |-> "exception", attempt |-> n]
  ELSE [ok |-> r = "ok", reason |-> r, attempt |-> n]

\* The try block shared by sendTelegramMessage and sendTelegramTo: the
\* first attempt, and the plain-text attempt after a markup-parsing error.
\* r1 and r2 are the provider's answers to the two attempts.
SendWithFallback(chat_id, text, parse_mode, r1, r2) ==
  IF IsParseError(r1)
  THEN [attempts |-> <<SendBody(chat_id, text, parse_mode),
                       PlainBody(chat_id, text, parse_mode)>>,
        result |-> AttemptResult(r2, 2)]
  ELSE [attempts |-> <<SendBody(chat_id, text, parse_mode)>>,
        result |-> AttemptResult(r1, 1)]

NotConfigured ==
  [attempts |-> <<>>,
   result |-> [ok |-> FALSE, reason |-> "no-telegram-config", attempt |-> 0]]

\* async function sendTelegramMessage(text, parse_mode = "HTML")
SendTelegramMessage(text, parse_mode, r1, r2) ==
  IF env.TELEGRAM_BOT_TOKEN = "" \/ env.TELEGRAM_CHAT_ID = ""
  THEN NotConfigured
  ELSE SendWithFallback(env.TELEGRAM_CHAT_ID, text, parse_mode, r1, r2)

\* async function sendTelegramTo(chatId, text, parse_mode = "HTML")
SendTelegramTo(chatId, text, parse_mode, r1, r2) ==
  IF env.TELEGRAM_BOT_TOKEN = ""
  THEN NotConfigured
  ELSE SendWithFallback(chatId, text, parse_mode, r1, r2)

IdleGw ==
  [fn |-> "none", chat_id |-> "", text |-> <<>>, parse_mode |-> Null,
   r1 |-> "ok", r2 |-> "ok", attempts |-> <<>>, result |-> NoResult]

\* The inputs of a gateway call: destinations, texts (one carries an
\* unescaped tag), and the markup flag.
GwChats == {"100", "200"}
GwTexts == {<<"hello">>, <<"<script>", " ", "x">>}
GwModes == {Null, Some("HTML")}

\* A call of sendTelegramMessage runs to completion.
CallSendTelegramMessage ==
  /\ Alive
  /\ \E text \in GwTexts, pm \in GwModes, r1 \in Responses, r2 \in Responses :
       LET out == SendTelegramMessage(text, pm, r1, r2)
       IN gw' = [fn |-> "sendTelegramMessage", chat_id |-> env.TELEGRAM_CHAT_ID,
                 text |-> text, parse_mode |-> pm, r1 |-> r1, r2 |-> r2,
                 attempts |-> out.attempts, result |-> out.result]
  /\ UNCHANGED <<env, setup, clock, storeVars, pollVars, reqs>>

\* A call of sendTelegramTo runs to completion.
CallSendTelegramTo ==
  /\ Alive
  /\ \E chatId \in GwChats, text \in GwTexts, pm \in GwModes,
        r1 \in Responses, r2 \in Responses :
       LET out == SendTelegramTo(chatId, text, pm, r1, r2)
       IN gw' = [fn |-> "sendTelegramTo", chat_id |-> chatId,
                 text |-> text, parse_mode |-> pm, r1 |-> r1, r2 |-> r2,
                 attempts |-> out.attempts, result |-> out.result]
  /\ UNCHANGED <<env, setup, clock, storeVars, pollVars, reqs>>

-----------------------------------------------------------------------------
(* The submission API (src/index.js:616-919).                              *)

\* A request: its route, its body (and :id), the await it is suspended at
\* ("insert", "notify", "update", "done"), the id and timestamp it assigned,
\* and its response: status (0 while there is none), the record and the
\* telegram field of the JSON body, and the gateway calls it made.
\* A JavaScript number: NaN or a finite value.
NaN == [num |-> FALSE, n |-> 0]
Finite(n) == [num |-> TRUE, n |-> n]

\* The fields of req.body, the :id of req.params and the limit of req.query.
NoBody ==
  [username |-> Null, text |-> Null, title |-> Null, body |-> Null,
   audio_url |-> Null, telegram_file_id |-> Null, value |-> Null,
   reply |-> Null, id |-> <<>>, limit |-> Null]

GrievanceBody(username, text, audio_url, telegram_file_id) ==
  [NoBody EXCEPT !.username = username, !.text = text, !.audio_url = audio_url,
                 !.telegram_file_id = telegram_file_id]

MoodBody(username, value) == [NoBody EXCEPT !.username = username, !.value = value]

DiaryBody(username, title, body, audio_url, telegram_file_id) ==
  [NoBody EXCEPT !.username = username, !.title = title, !.body = body,
                 !.audio_url = audio_url, !.telegram_file_id = telegram_file_id]

ReplyBody(id, reply) == [NoBody EXCEPT !.id = id, !.reply = reply]

NoRow ==
  [username |-> Null, text |-> Null, title |-> Null, body |-> Null, value |-> Null,
   reply |-> Null, audio_url |-> Null, telegram_file_id |-> Null,
   created_at |-> Null, replied_at |-> Null]

NewReq(route, b) ==
  [route |-> route, body |-> b, pc |-> "done", id |-> <<>>, created_at |-> 0,
   status |-> 0, record |-> Null, telegram |-> NoResult, calls |-> <<>>,
   limit |-> NaN, rows |-> {}]

\* The JSON values a request body can carry in a field read as a number:
\* a number, a string, null, a boolean.
JsNum(n) == [type |-> "number", n |-> n, s |-> ""]
JsStr(s) == [type |-> "string", n |-> 0, s |-> s]
JsNull == [type |-> "null", n |-> 0, s |-> ""]
JsBool(b) == [type |-> "boolean", n |-> IF b THEN 1 ELSE 0, s |-> ""]

\* The decimal strings the model uses, with the integers they denote.
DecimalStrings == {"0", "1", "7", "10", "11", "20", "100", "101", "500", "-1", "-5"}
DecimalValue(s) ==
  CASE s = "0" -> 0 [] s = "1" -> 1 [] s = "7" -> 7 [] s = "10" -> 10
    [] s = "11" -> 11 [] s = "20" -> 20 [] s = "100" -> 100 [] s = "101" -> 101
    [] s = "500" -> 500 [] s = "-1" -> 0 - 1 [] s = "-5" -> 0 - 5

\* Number(x): a number is itself, null is 0, true is 1 and false 0, an
\* empty or blank string is 0, a decimal string its value, any other
\* string NaN.
Number(x) ==
  CASE x.type = "number" -> Finite(x.n)
    [] x.type = "null" -> Finite(0)
    [] x.type = "boolean" -> Finite(x.n)
    [] x.type = "string" ->
         IF x.s \in {"", " "} THEN Finite(0)
         ELSE IF x.s \in DecimalStrings THEN Finite(DecimalValue(x.s))
         ELSE NaN

\* x || null
OrNull(o) == IF Falsy(o) THEN Null ELSE o

\* The row INSERT INTO grievances(...) VALUES($1..$6) stores (index.js:625-635).
GrievanceRow(b, created_at) ==
  [NoRow EXCEPT !.username = b.username, !.text = b.text,
                !.audio_url = OrNull(b.audio_url),
                !.telegram_file_id = OrNull(b.telegram_file_id),
                !.created_at = Some(created_at)]

\* The row INSERT INTO diary_notes(...) VALUES($1..$7) stores (index.js:785-796).
DiaryRow(b, created_at) ==
  [NoRow EXCEPT !.username = OrNull(b.username), !.title = OrNull(b.title),
                !.body = b.body, !.audio_url = OrNull(b.audio_url),
                !.telegram_file_id = OrNull(b.telegram_file_id),
                !.created_at = Some(created_at)]

\* The note of the POST /diary response (index.js:873-881): username and
\* title as sent, the rest as stored.
DiaryEcho(b, created_at) ==
  [DiaryRow(b, created_at) EXCEPT !.username = b.username, !.title = b.title]

\* The row INSERT INTO moods(username, value) stores; created_at DEFAULT now().
MoodRow(b) ==
  [NoRow EXCEPT !.username = b.username, !.value = Some(Number(b.value[1]).n),
                !.created_at = Some(clock)]

\* History: a submission was stored while these runs were in a bulk clear.
MarkSubmission(ps) ==
  [q \in DOMAIN ps |->
     IF ps[q].pc \in ClearPcs THEN [ps[q] EXCEPT !.mixed = TRUE] ELSE ps[q]]

\* const id = Date.now().toString();
NewId(n) == NumToString(n)

\* String(audio_url).startsWith("/")
LocalPaths == {"/uploads/a.ogg", "/uploads/gone.ogg"}
IsLocal(audio_url) == Len(audio_url[1]) >= 1 /\ audio_url[1][1] \in LocalPaths

\* What the provider and the file system answer during one notification:
\* whether the relay by file id succeeds, whether the local blob exists,
\* whether its upload succeeds, and the answers to sendTelegramMessage.
OutcomesAll ==
  [file : BOOLEAN, exists : BOOLEAN, upload : BOOLEAN,
   r1 : {"ok", "bad request", "can't parse", "network error"}, r2 : {"ok", "bad request"}]

OutcomesOk == {[file |-> TRUE, exists |-> TRUE, upload |-> TRUE, r1 |-> "ok", r2 |-> "ok"]}

Done(calls, result) == [calls |-> calls, result |-> result]

\* One call made by a notification, with whether it succeeded.
Call(fn, ok) == [fn |-> fn, ok |-> ok]

OkResult == [ok |-> TRUE, reason |-> "ok", attempt |-> 1]

\* if (telegram_file_id) ... else if (audio_url && String(audio_url).startsWith("/"))
HasFileIdUnlessLocal(b) ==
  ~Falsy(b.telegram_file_id) /\ ~(~Falsy(b.audio_url) /\ IsLocal(b.audio_url))

HasFileId(b) == ~Falsy(b.telegram_file_id)

HasLocalAudio(b) == ~Falsy(b.audio_url) /\ IsLocal(b.audio_url)

\* The notification of a stored Grievance or DiaryNote (index.js:637-702,
\* 798-869): the calls made, in order, and tgRes.
Forward(b, o) ==
  LET text == SendTelegramMessage(<<"summary">>, Some("HTML"), o.r1, o.r2).result
      summary == Call("sendTelegramMessage", text.ok)
  IN IF env.TELEGRAM_BOT_TOKEN = "" \/ env.TELEGRAM_CHAT_ID = ""
     THEN Done(<<>>, NotConfigured.result)
     ELSE IF HasFileId(b)
     THEN IF o.file
          THEN Done(<<Call("sendTelegramFileIdWithFallback", TRUE)>>, OkResult)
          ELSE Done(<<Call("sendTelegramFileIdWithFallback", FALSE), summary>>, text)
     ELSE IF HasLocalAudio(b)
     THEN IF ~o.exists
          THEN Done(<<Call("fs.existsSync", FALSE), summary>>, text)
          ELSE IF o.upload
          THEN Done(<<Call("fs.existsSync", TRUE), Call("uploadFileToTelegram", TRUE)>>,
                    OkResult)
          ELSE Done(<<Call("fs.existsSync", TRUE), Call("uploadFileToTelegram", FALSE),
                      summary>>, text)
     ELSE Done(<<summary>>, text)

\* The status of the response after a successful insert (res.json: 200).
CreatedStatusByTelegram(tg) == IF tg.ok THEN 200 ELSE 500

CreatedStatus(tg) == 200

\* POST /grievances up to its first await: validation, the id and the
\* timestamp, and the INSERT issued.
PostGrievances(Bodies, MaxReqs) ==
  /\ Alive
  /\ Len(reqs) < MaxReqs
  /\ \E b \in Bodies :
       reqs' = Append(reqs,
         IF Falsy(b.username) \/ Falsy(b.text)
         THEN [NewReq("POST /grievances", b) EXCEPT !.status = 400]
         ELSE [NewReq("POST /grievances", b) EXCEPT
                 !.pc = "insert", !.id = NewId(clock), !.created_at = clock])
  /\ UNCHANGED <<env, setup, clock, storeVars, pollVars, gw>>

\* A handler that would go on to the notification after a failed INSERT.
AfterInsertNotifies(ok) == "notify"

\* Where a creation handler resumes when its awaited INSERT returns: at the
\* notification, or in the catch block when the INSERT threw.
AfterInsert(ok) == IF ok THEN "notify" ELSE "done"

\* The INSERT INTO grievances runs: it throws on a duplicate primary key or
\* a store failure (500), else the row is stored.
PostGrievancesInsert(r) ==
  /\ Alive
  /\ reqs[r].route = "POST /grievances"
  /\ reqs[r].pc = "insert"
  /\ \E ok \in BOOLEAN :
       IF ok /\ ~Conflict(grievances, reqs[r].id)
       THEN /\ grievances' = InsertRow(grievances, reqs[r].id,
                                       GrievanceRow(reqs[r].body, reqs[r].created_at))
            /\ reqs' = [reqs EXCEPT ![r].pc = AfterInsert(TRUE)]
            /\ polls' = MarkSubmission(polls)
       ELSE /\ grievances' = grievances
            /\ reqs' = [reqs EXCEPT ![r].pc = AfterInsert(FALSE), ![r].status = 500]
            /\ polls' = polls
  /\ UNCHANGED <<env, setup, clock, moods, moodSerial, diary_notes, tgUpdateOffset, updates,
                 dispatched, replies, gw>>

\* The notification of a stored record, then res.json({ ok: true, ... }):
\* Forward for a Grievance or a DiaryNote, sendTelegramMessage for a Mood
\* (index.js:739-749).
Notify(r, Outcomes) ==
  /\ Alive
  /\ reqs[r].pc = "notify"
  /\ \E o \in Outcomes :
       LET mood == SendTelegramMessage(<<"mood">>, Some("HTML"), o.r1, o.r2).result
           f == IF reqs[r].route = "POST /mood"
                THEN Done(<<Call("sendTelegramMessage", mood.ok)>>, mood)
                ELSE Forward(reqs[r].body, o)
           row == IF reqs[r].route = "POST /grievances"
                  THEN GrievanceRow(reqs[r].body, reqs[r].created_at)
                  ELSE IF reqs[r].route = "POST /diary"
                  THEN DiaryEcho(reqs[r].body, reqs[r].created_at)
                  ELSE [MoodRow(reqs[r].body) EXCEPT !.created_at = Some(reqs[r].created_at)]
       IN reqs' = [reqs EXCEPT ![r].pc = "done",
                     ![r].status = CreatedStatus(f.result),
                     ![r].record = Some(row),
                     ![r].telegram = f.result,
                     ![r].calls = f.calls]
  /\ UNCHANGED <<env, setup, clock, storeVars, pollVars, gw>>

\* POST /diary up to its first await.
PostDiary(Bodies, MaxReqs) ==
  /\ Alive
  /\ Len(reqs) < MaxReqs
  /\ \E b \in Bodies :
       reqs' = Append(reqs,
         IF Falsy(b.body) \/ Trim(b.body[1]) = <<>>
         THEN [NewReq("POST /diary", b) EXCEPT !.status = 400]
         ELSE [NewReq("POST /diary", b) EXCEPT
                 !.pc = "insert", !.id = NewId(clock), !.created_at = clock])
  /\ UNCHANGED <<env, setup, clock, storeVars, pollVars, gw>>

\* The INSERT INTO diary_notes runs.
PostDiaryInsert(r) ==
  /\ Alive
  /\ reqs[r].route = "POST /diary"
  /\ reqs[r].pc = "insert"
  /\ \E ok \in BOOLEAN :
       IF ok /\ ~Conflict(diary_notes, reqs[r].id)
       THEN /\ diary_notes' = InsertRow(diary_notes, reqs[r].id,
                                        DiaryRow(reqs[r].body, reqs[r].created_at))
            /\ reqs' = [reqs EXCEPT ![r].pc = AfterInsert(TRUE)]
            /\ polls' = MarkSubmission(polls)
       ELSE /\ diary_notes' = diary_notes
            /\ reqs' = [reqs EXCEPT ![r].pc = AfterInsert(FALSE), ![r].status = 500]
            /\ polls' = polls
  /\ UNCHANGED <<env, setup, clock, grievances, moods, moodSerial, tgUpdateOffset, updates,
                 dispatched, replies, gw>>

\* const v = Number(value); Number.isFinite(v) && 0 <= v && v <= 10
MoodValueOk(value) ==
  Number(value[1]).num /\ Number(value[1]).n >= 0 /\ Number(value[1]).n <= 10

\* POST /mood up to its first await.
PostMood(Bodies, MaxReqs) ==
  /\ Alive
  /\ Len(reqs) < MaxReqs
  /\ \E b \in Bodies :
       reqs' = Append(reqs,
         IF Falsy(b.username) \/ IsNull(b.value) \/ ~MoodValueOk(b.value)
         THEN [NewReq("POST /mood", b) EXCEPT !.status = 400]
         ELSE [NewReq("POST /mood", b) EXCEPT !.pc = "insert"])
  /\ UNCHANGED <<env, setup, clock, storeVars, pollVars, gw>>

\* INSERT INTO moods(username, value) ... RETURNING: the sequence gives the id.
PostMoodInsert(r) ==
  /\ Alive
  /\ reqs[r].route = "POST /mood"
  /\ reqs[r].pc = "insert"
  /\ \E ok \in BOOLEAN :
       IF ok
       THEN /\ moods' = InsertRow(moods, moodSerial + 1, MoodRow(reqs[r].body))
            /\ moodSerial' = moodSerial + 1
            /\ reqs' = [reqs EXCEPT ![r].pc = AfterInsert(TRUE), ![r].id = <<moodSerial + 1>>,
                          ![r].created_at = clock]
            /\ polls' = MarkSubmission(polls)
       ELSE /\ UNCHANGED <<moods, moodSerial, polls>>
            /\ reqs' = [reqs EXCEPT ![r].pc = AfterInsert(FALSE), ![r].status = 500]
  /\ UNCHANGED <<env, setup, clock, grievances, diary_notes, tgUpdateOffset, updates,
                 dispatched, replies, gw>>

\* POST /grievances/:id/reply up to its first await.
PostReply(Bodies, MaxReqs) ==
  /\ Alive
  /\ Len(reqs) < MaxReqs
  /\ \E b \in Bodies :
       reqs' = Append(reqs,
         IF Falsy(b.reply)
         THEN [NewReq("POST /grievances/:id/reply", b) EXCEPT !.status = 400]
         ELSE [NewReq("POST /grievances/:id/reply", b) EXCEPT !.pc = "update", !.id = b.id])
  /\ UNCHANGED <<env, setup, clock, storeVars, pollVars, gw>>

\* The UPDATE of POST /grievances/:id/reply runs: 500, 404 or the row.
PostReplyUpdate(r) ==
  /\ Alive
  /\ reqs[r].route = "POST /grievances/:id/reply"
  /\ reqs[r].pc = "update"
  /\ \E ok \in BOOLEAN :
       IF ~ok
       THEN /\ grievances' = grievances
            /\ reqs' = [reqs EXCEPT ![r].pc = "done", ![r].status = 500]
       ELSE IF reqs[r].id \notin DOMAIN grievances
       THEN /\ grievances' = grievances
            /\ reqs' = [reqs EXCEPT ![r].pc = "done", ![r].status = 404]
       ELSE /\ grievances' = UpdateReply(grievances, reqs[r].id, reqs[r].body.reply[1])
            /\ reqs' = [reqs EXCEPT ![r].pc = "done", ![r].status = 200,
                          ![r].record = Some(UpdateReply(grievances, reqs[r].id,
                                                         reqs[r].body.reply[1])[reqs[r].id])]
  /\ UNCHANGED <<env, setup, clock, moods, moodSerial, diary_notes, pollVars, gw>>

\* app.delete("/diary/:id"): the DELETE is issued with req.params.id.
DeleteDiary(Ids, MaxReqs) ==
  /\ Alive
  /\ Len(reqs) < MaxReqs
  /\ \E id \in Ids :
       reqs' = Append(reqs,
         [NewReq("DELETE /diary/:id", [NoBody EXCEPT !.id = id])
            EXCEPT !.pc = "delete", !.id = id])
  /\ UNCHANGED <<env, setup, clock, storeVars, pollVars, gw>>

\* DELETE FROM diary_notes WHERE id=$1 RETURNING *: 500, 404 or the row.
DeleteDiaryDelete(r) ==
  /\ Alive
  /\ reqs[r].route = "DELETE /diary/:id"
  /\ reqs[r].pc = "delete"
  /\ \E ok \in BOOLEAN :
       IF ~ok
       THEN /\ diary_notes' = diary_notes
            /\ reqs' = [reqs EXCEPT ![r].pc = "done", ![r].status = 500]
       ELSE IF reqs[r].id \notin DOMAIN diary_notes
       THEN /\ diary_notes' = diary_notes
            /\ reqs' = [reqs EXCEPT ![r].pc = "done", ![r].status = 404]
       ELSE /\ diary_notes' = DeleteRow(diary_notes, reqs[r].id)
            /\ reqs' = [reqs EXCEPT ![r].pc = "done", ![r].status = 200,
                          ![r].record = Some(diary_notes[reqs[r].id])]
  /\ UNCHANGED <<env, setup, clock, grievances, moods, moodSerial, pollVars, gw>>

-----------------------------------------------------------------------------
(* Specifications.                                                         *)

InitBase ==
  /\ env = EnvConfigured
  /\ setup = "ok"
  /\ clock = 1
  /\ grievances = EmptyTable
  /\ moods = EmptyTable
  /\ moodSerial = 0
  /\ diary_notes = EmptyTable
  /\ tgUpdateOffset = 0
  /\ updates = <<>>
  /\ polls = <<>>
  /\ dispatched = <<>>
  /\ replies = <<>>
  /\ reqs = <<>>
  /\ gw = IdleGw

\* An inbound text message from a chat.
TextMsg(chat, text) ==
  [kind |-> "message", chat |-> chat, text |-> Some(text), caption |-> Null]

AdminChat == "100"
OtherChat == "200"

\* The gateway alone, under every environment.
InitGateway ==
  /\ env \in EnvAll
  /\ setup = "ok"
  /\ clock = 1
  /\ grievances = EmptyTable
  /\ moods = EmptyTable
  /\ moodSerial = 0
  /\ diary_notes = EmptyTable
  /\ tgUpdateOffset = 0
  /\ updates = <<>>
  /\ polls = <<>>
  /\ dispatched = <<>>
  /\ replies = <<>>
  /\ reqs = <<>>
  /\ gw = IdleGw

NextGateway == CallSendTelegramMessage \/ CallSendTelegramTo

SpecGateway == InitGateway /\ [][NextGateway]_vars

\* The submission API alone: concurrent creations under every channel
\* configuration and every notification outcome.
SubmitReqs == 1

EnvSubmit == {e \in EnvAll : e.TELEGRAM_ADMIN_ID = ""}

User == Some(<<"asha">>)

GrievanceBodies ==
  {GrievanceBody(User, Some(<<"late", " ", "again">>), a, f) :
     a \in {Null, Some(<<"/uploads/a.ogg">>)}, f \in {Null, Some(<<"FILE1">>)}}
  \cup {GrievanceBody(User, Null, Null, Null)}

DiaryBodies ==
  {DiaryBody(Null, Some(<<"day">>), Some(<<"dear", " ", "diary">>), a, Null) :
     a \in {Null, Some(<<"/uploads/a.ogg">>)}}
  \cup {DiaryBody(User, Null, Some(<<" ">>), Null, Null)}

MoodBodies ==
  {MoodBody(User, Some(JsNum(10))), MoodBody(User, Some(JsNum(11)))}

InitSubmit ==
  /\ env \in EnvSubmit
  /\ setup = "ok"
  /\ clock = 1
  /\ grievances = EmptyTable
  /\ moods = EmptyTable
  /\ moodSerial = 0
  /\ diary_notes = EmptyTable
  /\ tgUpdateOffset = 0
  /\ updates = <<>>
  /\ polls = <<>>
  /\ dispatched = <<>>
  /\ replies = <<>>
  /\ reqs = <<>>
  /\ gw = IdleGw

NextSubmit ==
  \/ ClockTick
  \/ PostGrievances(GrievanceBodies, SubmitReqs)
  \/ PostDiary(DiaryBodies, SubmitReqs)
  \/ PostMood(MoodBodies, SubmitReqs)
  \/ \E r \in DOMAIN reqs : PostGrievancesInsert(r)
  \/ \E r \in DOMAIN reqs : PostDiaryInsert(r)
  \/ \E r \in DOMAIN reqs : PostMoodInsert(r)
  \/ \E r \in DOMAIN reqs : Notify(r, OutcomesAll)

SpecSubmit == InitSubmit /\ [][NextSubmit]_vars

\* POST /mood alone, with every kind of value.
MoodReqs == 2

MoodValues ==
  {JsNum(0), JsNum(10), JsNum(11), JsNum(0 - 1), JsStr("abc"), JsStr("10"), JsStr(""),
   JsNull, JsBool(TRUE)}

MoodInputs == {MoodBody(User, Some(v)) : v \in MoodValues} \cup {MoodBody(User, Null)}

NextMood ==
  \/ PostMood(MoodInputs, MoodReqs)
  \/ \E r \in DOMAIN reqs : PostMoodInsert(r)
  \/ \E r \in DOMAIN reqs : Notify(r, OutcomesOk)

SpecMood == InitBase /\ [][NextMood]_vars

\* Concurrent submissions of a configured deployment whose notifications
\* all succeed.
ConcurrentReqs == 3

ConcurrentGrievances ==
  {GrievanceBody(User, Some(<<"late", " ", "again">>), Null, Null)}

ConcurrentDiary ==
  {DiaryBody(Null, Some(<<"day">>), Some(<<"dear", " ", "diary">>), Null, Null)}

NextConcurrent ==
  \/ ClockTick
  \/ PostGrievances(ConcurrentGrievances, ConcurrentReqs)
  \/ PostDiary(ConcurrentDiary, ConcurrentReqs)
  \/ \E r \in DOMAIN reqs : PostGrievancesInsert(r)
  \/ \E r \in DOMAIN reqs : PostDiaryInsert(r)
  \/ \E r \in DOMAIN reqs : Notify(r, OutcomesOk)

SpecConcurrent == InitBase /\ [][NextConcurrent]_vars

\* A store left by an earlier run of the process: one record of each kind,
\* created at tick 0.
SeedGrievances ==
  [k \in {<<"0">>} |->
     GrievanceRow(GrievanceBody(User, Some(<<"late", " ", "again">>), Null, Null), 0)]

SeedMoods == [k \in {1} |-> [MoodRow(MoodBody(User, Some(JsNum(7))))
                               EXCEPT !.created_at = Some(0)]]

SeedDiary ==
  [k \in {<<"0">>} |->
     DiaryRow(DiaryBody(Null, Some(<<"day">>), Some(<<"dear", " ", "diary">>), Null, Null), 0)]

InitSeeded ==
  /\ env = EnvConfigured
  /\ setup = "ok"
  /\ clock = 1
  /\ grievances = SeedGrievances
  /\ moods = SeedMoods
  /\ moodSerial = 1
  /\ diary_notes = SeedDiary
  /\ tgUpdateOffset = 0
  /\ updates = <<>>
  /\ polls = <<>>
  /\ dispatched = <<>>
  /\ replies = <<>>
  /\ reqs = <<>>
  /\ gw = IdleGw

\* The admin-only commands, from the admin and from another sender, against
\* the seeded store.
AuthPolls == 1
AuthUpdates == 2

AuthInbound ==
  {TextMsg(c, t) : c \in {AdminChat, OtherChat},
                   t \in {<<"/clear">>, <<"/confirm_clear">>, <<"delete_diary", " ", "0">>}}

NextAuth ==
  \/ Tick(AuthPolls)
  \/ TgNewUpdate(AuthInbound, AuthUpdates)
  \/ \E p \in DOMAIN polls : FetchReturn(p)
  \/ \E p \in DOMAIN polls : Loop(p)
  \/ \E p \in DOMAIN polls : ClearDelG(p)
  \/ \E p \in DOMAIN polls : ClearDelM(p)
  \/ \E p \in DOMAIN polls : ClearDelD(p)
  \/ \E p \in DOMAIN polls : DeleteDiaryCmd(p)

SpecAuth == InitSeeded /\ [][NextAuth]_vars

\* Replies to Grievances, over the chat and over POST
\* /grievances/:id/reply, interleaved with the creation of the Grievance
\* they name, starting from an empty store.
ReplyReqs == 2
ReplyPolls == 1
ReplyUpdates == 1

ReplyInbound ==
  {TextMsg(AdminChat, <<"reply", " ", "1", " ", "hi">>)}

ReplyBodies ==
  {ReplyBody(<<"1">>, Some(<<"sorry">>))}

NextReply ==
  \/ PostGrievances(ConcurrentGrievances, ReplyReqs)
  \/ \E r \in DOMAIN reqs : PostGrievancesInsert(r)
  \/ \E r \in DOMAIN reqs : Notify(r, OutcomesOk)
  \/ PostReply(ReplyBodies, ReplyReqs)
  \/ \E r \in DOMAIN reqs : PostReplyUpdate(r)
  \/ Tick(ReplyPolls)
  \/ TgNewUpdate(ReplyInbound, ReplyUpdates)
  \/ \E p \in DOMAIN polls : FetchReturn(p)
  \/ \E p \in DOMAIN polls : Loop(p)
  \/ \E p \in DOMAIN polls : RecordReply(p)

SpecReply == InitBase /\ [][NextReply]_vars

\* Reply commands over the chat, in their several spellings, against the
\* seeded store.
ChatPolls == 1
ChatUpdates == 2

ChatInbound ==
  {TextMsg(AdminChat, <<" ", "REPLY", "\n", "0", " ", " ", "All", " ", "good", " ">>),
   TextMsg(AdminChat, <<"id:", "0", " ", "hi">>),
   TextMsg(OtherChat, <<"ID", " ", "0", "\n", "ok">>),
   TextMsg(AdminChat, <<"reply", " ", "9", " ", "hi">>)}

NextChat ==
  \/ Tick(ChatPolls)
  \/ TgNewUpdate(ChatInbound, ChatUpdates)
  \/ \E p \in DOMAIN polls : FetchReturn(p)
  \/ \E p \in DOMAIN polls : Loop(p)
  \/ \E p \in DOMAIN polls : RecordReply(p)

SpecChat == InitSeeded /\ [][NextChat]_vars

\* The cursor: runs of the poller that may overlap, over updates that are
\* not messages and reply commands, against the seeded store.
CursorPolls == 2
CursorUpdates == 2

ChannelPost == [kind |-> "channel_post", chat |-> OtherChat, text |-> Null, caption |-> Null]

CursorInbound ==
  {ChannelPost, TextMsg(AdminChat, <<"reply", " ", "0", " ", "hi">>)}

NextCursor ==
  \/ Tick(CursorPolls)
  \/ TgNewUpdate(CursorInbound, CursorUpdates)
  \/ \E p \in DOMAIN polls : FetchReturn(p)
  \/ \E p \in DOMAIN polls : Loop(p)
  \/ \E p \in DOMAIN polls : RecordReply(p)

SpecCursor == InitSeeded /\ [][NextCursor]_vars

\* The timer against the seeded store: runs of the poller that overlap,
\* /clear and /confirm_clear from the admin, and Mood submissions.
OverlapPolls == 2
OverlapUpdates == 2
OverlapReqs == 1

OverlapInbound ==
  {TextMsg(AdminChat, <<"/clear">>), TextMsg(AdminChat, <<"/confirm_clear">>)}

OverlapMoods == {MoodBody(User, Some(JsNum(5)))}

NextOverlap ==
  \/ Tick(OverlapPolls)
  \/ TgNewUpdate(OverlapInbound, OverlapUpdates)
  \/ \E p \in DOMAIN polls : FetchReturn(p)
  \/ \E p \in DOMAIN polls : Loop(p)
  \/ \E p \in DOMAIN polls : ClearDelG(p)
  \/ \E p \in DOMAIN polls : ClearDelM(p)
  \/ \E p \in DOMAIN polls : ClearDelD(p)
  \/ PostMood(OverlapMoods, OverlapReqs)
  \/ \E r \in DOMAIN reqs : PostMoodInsert(r)
  \/ \E r \in DOMAIN reqs : Notify(r, OutcomesOk)

SpecOverlap == InitSeeded /\ [][NextOverlap]_vars

-----------------------------------------------------------------------------
(* The properties.                                                         *)

\* C1: no inbound update is dispatched to the command interpreter more than
\* once, however the runs of the poller are scheduled.
C1_DispatchedAtMostOnce ==
  \A k \in DOMAIN dispatched : dispatched[k] <= 1

\* The runs of pollTelegramUpdates that have started and not yet returned.
Running == {p \in DOMAIN polls : polls[p].pc # "done"}

\* C2: at most one run of pollTelegramUpdates is in progress at any moment.
C2_AtMostOneRun ==
  Cardinality(Running) <= 1

\* C3: every stored Grievance has a reply exactly when it has a reply
\* timestamp.
C3_ReplyIffRepliedAt ==
  \A id \in DOMAIN grievances :
    IsNull(grievances[id].reply) <=> IsNull(grievances[id].replied_at)

\* C3: a Grievance was created, replied to over the chat and then replied
\* to over POST /grievances/:id/reply.
C3_Witness ==
  /\ <<"1">> \in DOMAIN grievances
  /\ grievances[<<"1">>].reply = Some(<<"sorry">>)
  /\ ~IsNull(grievances[<<"1">>].replied_at)
  /\ \E k \in DOMAIN replies :
       Len(replies[k]) = 1 /\ replies[k][1].kind = "reply_recorded"
  /\ \E r \in DOMAIN reqs :
       reqs[r].route = "POST /grievances/:id/reply" /\ reqs[r].status = 200

\* C9: a configured call makes its first attempt with the caller's
\* destination, text and markup flag; when the provider rejects that attempt
\* with a markup-parsing error, exactly one more attempt is made, with the
\* same destination and text and no markup flag, and its outcome is the
\* result; after any other answer the first attempt's outcome is the
\* result.  A call never makes more than two attempts, and makes none when
\* the channel is not configured.
C9_PlainTextRetryOnce ==
  LET configured ==
        /\ env.TELEGRAM_BOT_TOKEN # ""
        /\ (gw.fn = "sendTelegramMessage" => env.TELEGRAM_CHAT_ID # "")
      n == Len(gw.attempts)
      answer == IF n = 2 THEN gw.r2 ELSE gw.r1
  IN gw.fn # "none" =>
       /\ n <= 2
       /\ ~configured => n = 0 /\ ~gw.result.ok
       /\ configured =>
            /\ n = (IF gw.r1 \in ParseErrors THEN 2 ELSE 1)
            /\ gw.attempts[1] =
                 [chat_id |-> gw.chat_id, text |-> gw.text, parse_mode |-> gw.parse_mode]
            /\ n = 2 => gw.attempts[2] =
                 [chat_id |-> gw.chat_id, text |-> gw.text, parse_mode |-> Null]
            /\ gw.result.attempt = n
            /\ gw.result.ok <=> (answer = "ok")

\* A sendTelegramTo call whose marked-up text carries an unescaped tag was
\* rejected with a parsing error and delivered by the plain-text attempt.
C9_Witness ==
  /\ gw.fn = "sendTelegramTo"
  /\ gw.text = <<"<script>", " ", "x">>
  /\ gw.parse_mode = Some("HTML")
  /\ gw.r1 = "unsupported start tag"
  /\ Len(gw.attempts) = 2
  /\ gw.result.ok

\* The updates sent by a chat other than the admin identity whose text is
\* one of the admin-only commands.
NonAdminCommands ==
  {k \in DOMAIN updates :
     /\ HasMsg(updates[k])
     /\ ~IsAdmin(updates[k])
     /\ Cmd(updates[k]).cmd \in {"clear", "confirm_clear", "delete_diary"}}

\* C4: an admin-only command from a sender other than the admin identity
\* never starts a deletion, and every reply it gets is the not-authorized
\* reply of its command, sent to that sender; as long as every inbound
\* message comes from such senders the store keeps every record it had.
C4_NonAdminNeverDeletes ==
  /\ \A k \in NonAdminCommands :
       /\ \A p \in DOMAIN polls :
            polls[p].i = k => polls[p].pc \notin (ClearPcs \cup {"delDiary"})
       /\ \A n \in DOMAIN replies[k] :
            /\ replies[k][n].to = FromChatId(updates[k])
            /\ replies[k][n].kind =
                 (IF Cmd(updates[k]).cmd = "delete_diary"
                  THEN "not_authorized_diary" ELSE "not_authorized_clear")
  /\ (\A k \in DOMAIN updates : ~IsAdmin(updates[k])) =>
       /\ grievances = SeedGrievances
       /\ moods = SeedMoods
       /\ diary_notes = SeedDiary

\* C4: a sender other than the admin sent /clear and then /confirm_clear;
\* both were handled, each got the not-authorized reply, and the records are
\* still stored.
C4_Witness ==
  /\ updates = <<TextMsg(OtherChat, <<"/clear">>), TextMsg(OtherChat, <<"/confirm_clear">>)>>
  /\ \A k \in {1, 2} : dispatched[k] = 1 /\ Len(replies[k]) = 1
  /\ replies[2][1].kind = "not_authorized_clear"
  /\ \A p \in DOMAIN polls : polls[p].pc = "done"
  /\ RowCount(grievances) = 1 /\ RowCount(moods) = 1 /\ RowCount(diary_notes) = 1

\* The /confirm_clear updates sent by the admin identity.
AdminConfirms ==
  {k \in DOMAIN updates :
     /\ HasMsg(updates[k])
     /\ IsAdmin(updates[k])
     /\ Cmd(updates[k]).cmd = "confirm_clear"}

\* The runs that are inside the three DELETEs of update k.
Clearing(k) == {p \in DOMAIN polls : polls[p].i = k /\ polls[p].pc \in ClearPcs}

\* C5: every time a /confirm_clear from the admin identity is dispatched the
\* interpreter goes into the three DELETEs, whatever messages came before
\* it: each dispatch is either still inside the DELETEs or has been answered
\* with the deleted counts or with the failure of a DELETE, never with a
\* warning, a refusal or the help text.
C5_ConfirmClearAlwaysHonoured ==
  \A k \in AdminConfirms :
    /\ dispatched[k] = Cardinality(Clearing(k)) + Len(replies[k])
    /\ \A n \in DOMAIN replies[k] : replies[k][n].kind \in {"deleted", "delete_failed"}

\* C5: the first message the process ever received is /confirm_clear from
\* the admin: no /clear came before it, and the three DELETEs ran and
\* removed the seeded records.
C5_Witness ==
  /\ Len(updates) >= 1
  /\ updates[1] = TextMsg(AdminChat, <<"/confirm_clear">>)
  /\ Len(replies[1]) = 1
  /\ replies[1][1].kind = "deleted"
  /\ replies[1][1].counts = <<1, 1, 1>>
  /\ RowCount(grievances) = 0 /\ RowCount(moods) = 0 /\ RowCount(diary_notes) = 0

\* The table a creation route writes to.
TableOf(route) ==
  IF route = "POST /grievances" THEN grievances
  ELSE IF route = "POST /diary" THEN diary_notes
  ELSE moods

\* The key under which request r stored its record.
KeyOf(r) == IF reqs[r].route = "POST /mood" THEN reqs[r].id[1] ELSE reqs[r].id

\* C6: when a creation request whose INSERT has succeeded gets its
\* response, the response is a success carrying the record and, in its
\* telegram field, the outcome of the notification, whether that outcome
\* is a delivery or a failure; the store is as the INSERT left it and holds
\* the record under the identity the response names.
C6_CreationReportsSuccess ==
  [][\A r \in DOMAIN reqs :
       (r \in DOMAIN reqs' /\ reqs[r].pc = "notify" /\ reqs'[r].pc = "done") =>
         /\ reqs'[r].status = 200
         /\ ~IsNull(reqs'[r].record)
         /\ reqs'[r].telegram # NoResult
         /\ reqs'[r].telegram.ok \in BOOLEAN
         /\ <<grievances, moods, moodSerial, diary_notes>>' =
              <<grievances, moods, moodSerial, diary_notes>>
         /\ KeyOf(r) \in DOMAIN TableOf(reqs[r].route)
         /\ TableOf(reqs[r].route)[KeyOf(r)].created_at = reqs'[r].record[1].created_at
         /\ TableOf(reqs[r].route)[KeyOf(r)].body = reqs'[r].record[1].body
         /\ TableOf(reqs[r].route)[KeyOf(r)].text = reqs'[r].record[1].text
         /\ TableOf(reqs[r].route)[KeyOf(r)].value = reqs'[r].record[1].value]_vars

\* C6: a DiaryNote was stored and its notification was rejected by the
\* provider; the response still reports the creation with the note, and
\* carries the rejection in its telegram field.
C6_Witness ==
  \E r \in DOMAIN reqs :
    /\ reqs[r].route = "POST /diary"
    /\ reqs[r].pc = "done"
    /\ reqs[r].status = 200
    /\ ~IsNull(reqs[r].record)
    /\ ~reqs[r].telegram.ok
    /\ reqs[r].telegram.reason = "bad request"
    /\ reqs[r].id \in DOMAIN diary_notes

\* The Grievance and DiaryNote submissions that passed validation.
Submissions(route) ==
  {r \in DOMAIN reqs : reqs[r].route = route /\ reqs[r].status # 400}

\* C8: the submissions of one kind that passed validation have pairwise
\* distinct identities, so that none of them can fail on a duplicate key.
C8_DistinctIdentities ==
  \A route \in {"POST /grievances", "POST /diary"} :
    \A r1, r2 \in Submissions(route) :
      r1 # r2 => reqs[r1].id # reqs[r2].id

\* raw reads as a reply command with its keyword at a, its token from b to
\* c and its text from d to e: white space only before a and after e; the
\* keyword reply followed by white space, or id, id: or id# followed by
\* optional white space; a token without white space; white space; a text
\* that begins and ends with something other than white space.
IsReplyCommand(raw, a, b, c, d, e) ==
  /\ \A k \in 1..(a - 1) : raw[k] \in WS
  /\ Lower(raw[a]) \in {"reply", "id", "id:", "id#"}
  /\ \A k \in (a + 1)..(b - 1) : raw[k] \in WS
  /\ Lower(raw[a]) = "reply" => b > a + 1
  /\ \A k \in b..c : raw[k] \notin WS
  /\ \A k \in (c + 1)..(d - 1) : raw[k] \in WS
  /\ raw[d] \notin WS
  /\ raw[e] \notin WS
  /\ \A k \in (e + 1)..Len(raw) : raw[k] \in WS

\* What the step that answers update k, a reply command with this token
\* and text, does: when the token names a Grievance, that Grievance gets
\* the text as its reply and a reply timestamp, nothing else changes and
\* the answer echoes the reply; when it names none, the answer is "not
\* found" and the store is unchanged.  (When the store call fails the
\* answer says so and the store is unchanged.)
ReplyOutcome(k, token, text) ==
  LET m == replies'[k][Len(replies'[k])]
  IN /\ m.to = FromChatId(updates[k])
     /\ m.id = token
     /\ <<moods, moodSerial, diary_notes>>' = <<moods, moodSerial, diary_notes>>
     /\ \/ m.kind = "reply_failed" /\ grievances' = grievances
        \/ /\ token \notin DOMAIN grievances
           /\ m.kind = "grievance_not_found"
           /\ grievances' = grievances
        \/ /\ token \in DOMAIN grievances
           /\ m.kind = "reply_recorded"
           /\ m.text = text
           /\ DOMAIN grievances' = DOMAIN grievances
           /\ grievances'[token].reply = Some(text)
           /\ ~IsNull(grievances'[token].replied_at)
           /\ grievances'[token] =
                [grievances[token] EXCEPT !.reply = grievances'[token].reply,
                                          !.replied_at = grievances'[token].replied_at]
           /\ \A id \in DOMAIN grievances \ {token} : grievances'[id] = grievances[id]

\* C7: whenever a chat message that reads as a reply command is answered,
\* the answer and the change to the store are those of its token and its
\* trimmed text.
C7_ChatReplyRecorded ==
  [][\A k \in DOMAIN updates :
       (k \in DOMAIN replies /\ Len(replies'[k]) > Len(replies[k])) =>
         LET raw == RawTextUntrimmed(updates[k])
         IN \A a \in 1..Len(raw) : \A b \in (a + 1)..Len(raw) : \A c \in b..Len(raw) :
              \A d \in (c + 2)..Len(raw) : \A e \in d..Len(raw) :
                IsReplyCommand(raw, a, b, c, d, e) =>
                  ReplyOutcome(k, SubSeq(raw, b, c), SubSeq(raw, d, e))]_vars

\* C7: a reply command written with capitals and surrounded by white space
\* was recorded for the Grievance it names, with its text trimmed, and a
\* reply command naming no Grievance was answered "not found".
C7_Witness ==
  /\ Len(updates) = 2
  /\ updates[1].text = Some(<<" ", "REPLY", "\n", "0", " ", " ", "All", " ", "good", " ">>)
  /\ replies[1] = <<Msg(AdminChat, "reply_recorded", <<"0">>, <<"All", " ", "good">>, <<0, 0, 0>>)>>
  /\ grievances[<<"0">>].reply = Some(<<"All", " ", "good">>)
  /\ ~IsNull(grievances[<<"0">>].replied_at)
  /\ updates[2].text = Some(<<"reply", " ", "9", " ", "hi">>)
  /\ replies[2] = <<Msg(AdminChat, "grievance_not_found", <<"9">>, <<>>, <<0, 0, 0>>)>>

\* C10: when the last DELETE of an admin /confirm_clear succeeds and no
\* submission was stored since the command was dispatched, the three
\* tables are empty and the counts of the reply are the numbers of records
\* the tables held when the command was dispatched.
C10_ClearCountsMatch ==
  [][\A p \in DOMAIN polls :
       (/\ p \in DOMAIN polls'
        /\ polls[p].pc = "delD" /\ polls'[p].pc = "loop"
        /\ replies'[polls[p].i][Len(replies'[polls[p].i])].kind = "deleted"
        /\ ~polls[p].mixed) =>
         /\ RowCount(grievances') = 0
         /\ RowCount(moods') = 0
         /\ RowCount(diary_notes') = 0
         /\ replies'[polls[p].i][Len(replies'[polls[p].i])].counts = polls[p].pre]_vars

\* C11: when the second or the third DELETE of a bulk clear fails, the
\* reply sent for the command carries the counts reached before the
\* failing call: the rows the earlier DELETEs removed.
C11_PartialFailureReportsCounts ==
  [][\A p \in DOMAIN polls :
       (/\ p \in DOMAIN polls'
        /\ polls[p].pc \in {"delM", "delD"} /\ polls'[p].pc = "loop"
        /\ replies'[polls[p].i][Len(replies'[polls[p].i])].kind # "deleted") =>
         /\ replies'[polls[p].i][Len(replies'[polls[p].i])].to = FromChatId(updates[polls[p].i])
         /\ replies'[polls[p].i][Len(replies'[polls[p].i])].counts =
              <<polls[p].delG, IF polls[p].pc = "delD" THEN polls[p].delM ELSE 0, 0>>]_vars

\* A value that is a number: a JSON number or a decimal string.
IsNumeric(x) == x.type = "number" \/ (x.type = "string" /\ x.s \in DecimalStrings)

\* The number a numeric value denotes.
NumericValue(x) == IF x.type = "number" THEN x.n ELSE DecimalValue(x.s)

\* C12: a POST /mood whose value is not a number, or is a number below 0
\* or above 10, is answered 400 before anything is stored; one whose value
\* is the number 0 or 10 passes validation.
C12_MoodValueValidated ==
  \A r \in DOMAIN reqs :
    (reqs[r].route = "POST /mood" /\ ~IsNull(reqs[r].body.value)) =>
      LET x == reqs[r].body.value[1]
      IN /\ (~IsNumeric(x) \/ NumericValue(x) < 0 \/ NumericValue(x) > 10) =>
              reqs[r].pc = "done" /\ reqs[r].status = 400
         /\ (x = JsNum(0) \/ x = JsNum(10)) => reqs[r].status # 400

\* C13: a run whose getUpdates call fails ends there: the cursor, the
\* store, the replies and the dispatch counts are as they were; and a run
\* started while the cursor is still where a failed run found it requests
\* the offset the failed run requested.
C13_FailedFetchLeavesCursor ==
  [][/\ \A p \in DOMAIN polls :
          (p \in DOMAIN polls' /\ polls[p].pc = "fetch" /\ polls'[p].failed) =>
            /\ polls'[p].pc = "done"
            /\ tgUpdateOffset' = tgUpdateOffset
            /\ <<grievances, moods, moodSerial, diary_notes>>' =
                 <<grievances, moods, moodSerial, diary_notes>>
            /\ replies' = replies
            /\ dispatched' = dispatched
     /\ Len(polls') > Len(polls) =>
          \A q \in DOMAIN polls :
            (polls[q].failed /\ tgUpdateOffset = polls[q].offset - 1) =>
              polls'[Len(polls')].offset = polls[q].offset]_vars

\* C13: the first run's getUpdates call failed while an update was
\* pending; the second run requested the same offset, received the update
\* and answered it.
C13_Witness ==
  /\ Len(polls) = 2
  /\ polls[1].failed /\ polls[1].pc = "done" /\ polls[1].offset = 1
  /\ polls[2].offset = 1 /\ polls[2].hi >= 1 /\ ~polls[2].failed
  /\ dispatched[1] = 1
  /\ Len(replies[1]) = 1

\* The awaits at which a run has a store call of the update it is handling
\* in flight.
StorePcs == ClearPcs \cup {"delDiary", "update"}

\* C14: when an update is dispatched or answered the cursor is at or
\* beyond its update_id; while a store call of an update is in flight the
\* cursor is at or beyond it; and a run started after an update was
\* dispatched requests an offset beyond that update, whether or not the
\* dispatch succeeded.
C14_CursorBeforeDispatch ==
  [][/\ \A j \in DOMAIN replies :
          (replies'[j] # replies[j] \/ dispatched'[j] > dispatched[j]) =>
            tgUpdateOffset' >= j
     /\ \A p \in DOMAIN polls :
          polls[p].pc \in StorePcs => tgUpdateOffset >= polls[p].i
     /\ Len(polls') > Len(polls) =>
          \A j \in DOMAIN dispatched :
            dispatched[j] > 0 => polls'[Len(polls')].offset > j]_vars

\* C14: the store call of the first update's reply command failed; the
\* cursor is at that update and the run started afterwards requested the
\* offset after it.
C14_Witness ==
  /\ Len(updates) >= 1
  /\ dispatched[1] = 1
  /\ Len(replies[1]) = 1
  /\ replies[1][1].kind = "reply_failed"
  /\ tgUpdateOffset >= 1
  /\ Len(polls) = 2
  /\ polls[1].pc = "done"
  /\ polls[2].offset = 2

\* The largest update_id in any batch a run has received (0 if none).
MaxObserved ==
  IF \E p \in DOMAIN polls : polls[p].hi > 0
  THEN CHOOSE h \in {polls[p].hi : p \in DOMAIN polls} :
         \A p \in DOMAIN polls : polls[p].hi <= h
  ELSE 0

\* C15: the cursor never decreases, and whenever no run of the poller is
\* in progress it is the largest update_id observed so far.
C15_CursorMonotonic ==
  /\ [](Running = {} => tgUpdateOffset = MaxObserved)
  /\ [][tgUpdateOffset' >= tgUpdateOffset]_vars

\* C15: two runs overlapped, the first received update 1 only and the
\* second, started before the first advanced the cursor, updates 1 and 2;
\* both have returned and the cursor is 2.
C15_Witness ==
  /\ Len(polls) = 2
  /\ Running = {}
  /\ polls[1].hi = 1
  /\ polls[2].offset = 1 /\ polls[2].hi = 2
  /\ tgUpdateOffset = 2

\* A store mutation or a reply belonging to update k has happened.
Acted(k) ==
  \/ replies[k] # <<>>
  \/ \E p \in DOMAIN polls : polls[p].i = k /\ polls[p].pc \in {"delM", "delD"}

\* C16: no store call and no reply of an update happens after a store
\* mutation or a reply of an update that follows it in the provider's
\* sequence.
C16_ProviderOrder ==
  [][\A j \in DOMAIN replies : \A k \in DOMAIN replies :
       (/\ j < k
        /\ \/ replies'[j] # replies[j]
           \/ \E p \in DOMAIN polls :
                polls[p].i = j /\ polls[p].pc \in StorePcs /\ polls'[p] # polls[p]) =>
         ~Acted(k)]_vars

\* C17: no stored Grievance and no stored DiaryNote has both of its media
\* references populated.
C17_MediaReferenceExclusive ==
  /\ \A id \in DOMAIN grievances :
       IsNull(grievances[id].audio_url) \/ IsNull(grievances[id].telegram_file_id)
  /\ \A id \in DOMAIN diary_notes :
       IsNull(diary_notes[id].audio_url) \/ IsNull(diary_notes[id].telegram_file_id)

-----------------------------------------------------------------------------
(* Startup: ensureTables() is called at module load and not awaited; the  *)
(* timer and the listener are installed by the same synchronous pass.     *)

\* ensureTables().catch(e => { console.error(...); process.exit(1); })
EnsureTablesReturn ==
  /\ setup = "pending"
  /\ \E ok \in BOOLEAN : setup' = IF ok THEN "ok" ELSE "exited"
  /\ UNCHANGED <<env, clock, storeVars, pollVars, reqs, gw>>

StartupPolls == 1
StartupUpdates == 1
StartupReqs == 1

\* The state when module load has finished: the setup promise is pending,
\* setInterval is armed and the server listens.
InitStartup ==
  /\ env = EnvConfigured
  /\ setup = "pending"
  /\ clock = 1
  /\ grievances = SeedGrievances
  /\ moods = SeedMoods
  /\ moodSerial = 1
  /\ diary_notes = SeedDiary
  /\ tgUpdateOffset = 0
  /\ updates = <<>>
  /\ polls = <<>>
  /\ dispatched = <<>>
  /\ replies = <<>>
  /\ reqs = <<>>
  /\ gw = IdleGw

NextStartup ==
  \/ EnsureTablesReturn
  \/ Tick(StartupPolls)
  \/ TgNewUpdate(CursorInbound, StartupUpdates)
  \/ \E p \in DOMAIN polls : FetchReturn(p)
  \/ \E p \in DOMAIN polls : Loop(p)
  \/ \E p \in DOMAIN polls : RecordReply(p)
  \/ PostMood(MoodInputs, StartupReqs)
  \/ \E r \in DOMAIN reqs : PostMoodInsert(r)
  \/ \E r \in DOMAIN reqs : Notify(r, OutcomesOk)

SpecStartup == InitStartup /\ [][NextStartup]_vars

\* C18: while the table setup has not succeeded (it is still pending, or it
\* failed and the process exited), no HTTP request has been accepted and no
\* poll cycle has been started.
C18_NoServingBeforeSetup ==
  setup # "ok" => reqs = <<>> /\ polls = <<>>

\* Run p has made a sendTelegramTo call for update polls[p].i and awaits its
\* return: every path of the interpreter that comes back to the loop after
\* handling an update does so through such a call.
AwaitsOutbound(p) == polls[p].pc = "loop" /\ polls[p].i >= polls[p].offset

\* C19: while a run waits on an outbound call that has not returned, the
\* timer can still start a run, every other run that has issued its fetch
\* can still receive its batch, and every message not yet dispatched lies in
\* the range a run started now asks for.
C19_HungCallDoesNotStallPolling ==
  \A p \in DOMAIN polls :
    AwaitsOutbound(p) =>
      /\ Len(polls) < CursorPolls => ENABLED Tick(CursorPolls)
      /\ \A q \in DOMAIN polls \ {p} :
           polls[q].pc = "fetch" => ENABLED FetchReturn(q)
      /\ \A k \in DOMAIN updates :
           HasMsg(updates[k]) /\ dispatched[k] = 0 => k >= NewPoll.offset

\* A run still waits on the call it made for one update while a later run,
\* started after it, has fetched, dispatched and answered a later update.
C19_Witness ==
  \E p \in DOMAIN polls : \E q \in DOMAIN polls :
    /\ AwaitsOutbound(p)
    /\ q > p
    /\ polls[q].offset > polls[p].i
    /\ polls[q].i >= polls[q].offset
    /\ dispatched[polls[q].i] = 1
    /\ replies[polls[q].i] # <<>>

-----------------------------------------------------------------------------
(* GET /diary: the recent notes, up to a limit taken from the query.       *)

DigitChars == <<"0", "1", "2", "3", "4", "5", "6", "7", "8", "9">>
IsDigit(c) == \E d \in 1..10 : DigitChars[d] = c
DigitValue(c) == (CHOOSE d \in 1..10 : DigitChars[d] = c) - 1

\* The value of the longest run of decimal digits of s that starts at i.
RECURSIVE ParseDigits(_, _, _)
ParseDigits(s, i, acc) ==
  IF i <= Len(s) /\ IsDigit(s[i])
  THEN ParseDigits(s, i + 1, acc * 10 + DigitValue(s[i]))
  ELSE acc

\* parseInt(s) of a string of characters without a 0x prefix: leading white
\* space is skipped, a sign is read, then the longest run of digits; NaN
\* when no digit follows.
ParseInt(s) ==
  LET i == SkipWs(s, 1)
      neg == i <= Len(s) /\ s[i] = "-"
      j == IF i <= Len(s) /\ s[i] \in {"-", "+"} THEN i + 1 ELSE i
  IN IF j <= Len(s) /\ IsDigit(s[j])
     THEN Finite(IF neg THEN 0 - ParseDigits(s, j, 0) ELSE ParseDigits(s, j, 0))
     ELSE NaN

\* Math.max and Math.min: NaN when an argument is NaN.
MathMax(a, b) == IF a.num /\ b.num THEN Finite(Max(a.n, b.n)) ELSE NaN
MathMin(a, b) ==
  IF a.num /\ b.num THEN Finite(IF a.n <= b.n THEN a.n ELSE b.n) ELSE NaN

\* Math.min(100, Math.max(1, parseInt(req.query.limit || "20")))
DiaryLimitUnclamped(q) == ParseInt(IF Falsy(q) THEN <<"2", "0">> ELSE q[1])

DiaryLimit(q) == MathMin(Finite(100), MathMax(Finite(1), DiaryLimitUnclamped(q)))

\* SELECT ... FROM diary_notes ORDER BY created_at DESC LIMIT n: the sets of
\* ids the query can return (notes of one instant come in either order).
SelectRecent(t, n) ==
  {S \in SUBSET DOMAIN t :
     /\ Cardinality(S) = (IF n <= RowCount(t) THEN n ELSE RowCount(t))
     /\ \A a \in S : \A b \in DOMAIN t \ S : t[a].created_at[1] >= t[b].created_at[1]}

\* app.get("/diary"): the limit is computed and the SELECT issued.
GetDiary(Queries, MaxReqs) ==
  /\ Alive
  /\ Len(reqs) < MaxReqs
  /\ \E q \in Queries :
       reqs' = Append(reqs,
         [NewReq("GET /diary", [NoBody EXCEPT !.limit = q])
            EXCEPT !.pc = "select", !.limit = DiaryLimit(q)])
  /\ UNCHANGED <<env, setup, clock, storeVars, pollVars, gw>>

\* The SELECT returns its rows, or throws: the store fails, or it rejects a
\* LIMIT parameter that is not a non-negative integer.
GetDiarySelect(r) ==
  /\ Alive
  /\ reqs[r].route = "GET /diary"
  /\ reqs[r].pc = "select"
  /\ \E ok \in BOOLEAN :
       IF ok /\ reqs[r].limit.num /\ reqs[r].limit.n >= 0
       THEN \E S \in SelectRecent(diary_notes, reqs[r].limit.n) :
              reqs' = [reqs EXCEPT ![r].pc = "done", ![r].status = 200, ![r].rows = S]
       ELSE reqs' = [reqs EXCEPT ![r].pc = "done", ![r].status = 500]
  /\ UNCHANGED <<env, setup, clock, storeVars, pollVars, gw>>

DiaryListReqs == 2

\* The values of ?limit=: absent, empty, zero, negative, small, 100, above
\* 100, not numeric, digits followed by letters, digits after a blank.
QueryLimits ==
  {Null, Some(<<>>), Some(<<"0">>), Some(<<"-", "5">>), Some(<<"1">>), Some(<<"2">>),
   Some(<<"1", "0", "0">>), Some(<<"1", "0", "1">>), Some(<<"5", "0", "0">>),
   Some(<<"a", "b", "c">>), Some(<<"1", "2", "a", "b", "c">>), Some(<<" ", "7">>)}

\* Three stored notes, two of them of the same instant.
SeedDiaryList ==
  [k \in {<<"0">>, <<"1">>, <<"2">>} |->
     DiaryRow(DiaryBody(Null, Some(<<"day">>), Some(<<"dear", " ", "diary">>), Null, Null),
              IF k = <<"0">> THEN 0 ELSE 1)]

InitDiaryList ==
  /\ env = EnvConfigured
  /\ setup = "ok"
  /\ clock = 1
  /\ grievances = EmptyTable
  /\ moods = EmptyTable
  /\ moodSerial = 0
  /\ diary_notes = SeedDiaryList
  /\ tgUpdateOffset = 0
  /\ updates = <<>>
  /\ polls = <<>>
  /\ dispatched = <<>>
  /\ replies = <<>>
  /\ reqs = <<>>
  /\ gw = IdleGw

NextDiaryList ==
  \/ GetDiary(QueryLimits, DiaryListReqs)
  \/ \E r \in DOMAIN reqs : GetDiarySelect(r)

SpecDiaryList == InitDiaryList /\ [][NextDiaryList]_vars

\* C20: for every value of the limit query parameter of GET /diary, the limit
\* handed to the store is an integer between 1 and 100: 100 when the value
\* read is above 100, 1 when it is 0 or below; and the response carries at
\* most 100 notes.
C20_DiaryLimitClamped ==
  \A r \in DOMAIN reqs :
    reqs[r].route = "GET /diary" =>
      LET raw == DiaryLimitUnclamped(reqs[r].body.limit)
      IN /\ reqs[r].limit.num
         /\ reqs[r].limit.n \in 1..100
         /\ raw.num /\ raw.n > 100 => reqs[r].limit.n = 100
         /\ raw.num /\ raw.n <= 0 => reqs[r].limit.n = 1
         /\ Cardinality(reqs[r].rows) <= 100

-----------------------------------------------------------------------------
(* Messages that are no command (index.js:361-384).                        *)

HelpPolls == 2
HelpUpdates == 2

\* Texts that match none of the command forms: conversation, a reply
\* command without its text, a caption instead of a text.
HelpInbound ==
  {TextMsg(AdminChat, <<"hello">>),
   TextMsg(OtherChat, <<"hello">>),
   TextMsg(AdminChat, <<"reply", " ", "0">>),
   [kind |-> "message", chat |-> OtherChat, text |-> Null, caption |-> Some(<<"clear">>)]}

NextHelp ==
  \/ Tick(HelpPolls)
  \/ TgNewUpdate(HelpInbound, HelpUpdates)
  \/ \E p \in DOMAIN polls : FetchReturn(p)
  \/ \E p \in DOMAIN polls : Loop(p)

SpecHelp == InitSeeded /\ [][NextHelp]_vars

\* C21: a message that matches no command form leaves the store as it was;
\* once handled it has exactly one reply, the help text, when its sender is
\* the admin identity, and no reply at all when its sender is anyone else.
C21_UnrecognisedMessage ==
  /\ grievances = SeedGrievances /\ moods = SeedMoods /\ diary_notes = SeedDiary
  /\ \A k \in DOMAIN updates :
       (HasMsg(updates[k]) /\ Cmd(updates[k]).cmd = "none" /\ dispatched[k] >= 1) =>
         replies[k] = (IF IsAdmin(updates[k])
                       THEN <<Plain(FromChatId(updates[k]), "help")>> ELSE <<>>)

-----------------------------------------------------------------------------
(* delete_diary <id> (index.js:321-359).                                   *)

DiaryDeletePolls == 1
DiaryDeleteUpdates == 2

\* delete_diary for a stored note, in capitals with more text after the
\* token, and for a token no note has.
DiaryDeleteInbound ==
  {TextMsg(AdminChat, <<"delete_diary", " ", "1">>),
   TextMsg(AdminChat, <<"Delete_Diary", "\n", "2", " ", "please">>),
   TextMsg(AdminChat, <<"delete_diary", " ", "9">>)}

InitDiaryDelete ==
  /\ env = EnvConfigured
  /\ setup = "ok"
  /\ clock = 1
  /\ grievances = SeedGrievances
  /\ moods = SeedMoods
  /\ moodSerial = 1
  /\ diary_notes = SeedDiaryList
  /\ tgUpdateOffset = 0
  /\ updates = <<>>
  /\ polls = <<>>
  /\ dispatched = <<>>
  /\ replies = <<>>
  /\ reqs = <<>>
  /\ gw = IdleGw

NextDiaryDelete ==
  \/ Tick(DiaryDeletePolls)
  \/ TgNewUpdate(DiaryDeleteInbound, DiaryDeleteUpdates)
  \/ \E p \in DOMAIN polls : FetchReturn(p)
  \/ \E p \in DOMAIN polls : Loop(p)
  \/ \E p \in DOMAIN polls : DeleteDiaryCmd(p)

SpecDiaryDelete == InitDiaryDelete /\ [][NextDiaryDelete]_vars

\* C22: when the DELETE of an admin's delete_diary returns, one reply about
\* the token goes to the admin: "deleted" when a note had the token, and
\* then that note is gone; "not found" when none had it, and then the notes
\* are as before (as they are when the store call fails).  Every Grievance,
\* every Mood and every other DiaryNote is unchanged.
C22_DeleteDiaryExactlyOne ==
  [][\A p \in DOMAIN polls :
       (polls[p].pc = "delDiary" /\ polls'[p].pc # "delDiary") =>
         LET j == polls[p].i
             tok == Cmd(updates[j]).id
             m == replies'[j][Len(replies'[j])]
         IN /\ IsAdmin(updates[j])
            /\ Len(replies'[j]) = Len(replies[j]) + 1
            /\ m.to = TELEGRAM_ADMIN_ID /\ m.id = tok
            /\ grievances' = grievances /\ moods' = moods
            /\ DOMAIN diary_notes' \subseteq DOMAIN diary_notes
            /\ \A id \in DOMAIN diary_notes \ {tok} :
                 id \in DOMAIN diary_notes' /\ diary_notes'[id] = diary_notes[id]
            /\ CASE m.kind = "diary_deleted" ->
                      tok \in DOMAIN diary_notes /\ tok \notin DOMAIN diary_notes'
                 [] m.kind = "diary_not_found" ->
                      tok \notin DOMAIN diary_notes /\ diary_notes' = diary_notes
                 [] m.kind = "diary_failed" -> diary_notes' = diary_notes
                 [] OTHER -> FALSE]_vars

\* Note 2 was deleted by a command in capitals, a command for token 9 was
\* answered "not found", and notes 0 and 1, the Grievance and the Mood are
\* still stored.
C22_Witness ==
  /\ Len(updates) = 2
  /\ updates[1].text = Some(<<"Delete_Diary", "\n", "2", " ", "please">>)
  /\ replies[1] = <<Msg(AdminChat, "diary_deleted", <<"2">>, <<>>, <<0, 0, 0>>)>>
  /\ replies[2] = <<Msg(AdminChat, "diary_not_found", <<"9">>, <<>>, <<0, 0, 0>>)>>
  /\ DOMAIN diary_notes = {<<"0">>, <<"1">>}
  /\ \A id \in {<<"0">>, <<"1">>} : diary_notes[id] = SeedDiaryList[id]
  /\ grievances = SeedGrievances /\ moods = SeedMoods

\* The updates whose text is a /clear command.
ClearCommands ==
  {k \in DOMAIN updates : HasMsg(updates[k]) /\ MatchesWord(RawText(updates[k]), "/clear")}

\* C23: the handling of a /clear sends one reply, the confirmation warning
\* to the admin and the not-authorized reply to anyone else, starts no
\* deletion and leaves every table as it was; as long as every inbound
\* message is a /clear the store keeps every record it had.
C23_ClearDeletesNothing ==
  /\ [](DOMAIN updates = ClearCommands =>
          /\ grievances = SeedGrievances
          /\ moods = SeedMoods
          /\ diary_notes = SeedDiary)
  /\ [][\A p \in DOMAIN polls : \A k \in ClearCommands :
          (polls[p].pc = "loop" /\ polls[p].i < k /\ polls'[p].i = k) =>
            /\ polls'[p].pc = "loop"
            /\ replies'[k] = Append(replies[k],
                 Plain(FromChatId(updates[k]),
                       IF IsAdmin(updates[k]) THEN "confirm_warning"
                       ELSE "not_authorized_clear"))
            /\ grievances' = grievances
            /\ moods' = moods
            /\ diary_notes' = diary_notes]_vars

\* A /clear of the admin and a /clear of another sender were both handled
\* and answered, and the records are still stored.
C23_Witness ==
  /\ updates = <<TextMsg(AdminChat, <<"/clear">>), TextMsg(OtherChat, <<"/clear">>)>>
  /\ replies = << <<Plain(AdminChat, "confirm_warning")>>,
                  <<Plain(OtherChat, "not_authorized_clear")>> >>
  /\ \A p \in DOMAIN polls : polls[p].pc = "done"
  /\ grievances = SeedGrievances /\ moods = SeedMoods /\ diary_notes = SeedDiary

-----------------------------------------------------------------------------
(* The notification of a creation (index.js:637-702, 798-869).             *)

NotifyReqs == 1

\* The media references of a submission: none, a local path with or without
\* its blob on disk, a URL that is not local; no token or a token.
NotifyAudio ==
  {Null, Some(<<"/uploads/a.ogg">>), Some(<<"https://cdn/a.ogg">>)}

NotifyGrievances ==
  {GrievanceBody(User, Some(<<"late", " ", "again">>), a, f) :
     a \in NotifyAudio, f \in {Null, Some(<<"FILE1">>)}}

NotifyDiary ==
  {DiaryBody(Null, Some(<<"day">>), Some(<<"dear", " ", "diary">>), a, f) :
     a \in NotifyAudio, f \in {Null, Some(<<"FILE1">>)}}

NextNotify ==
  \/ PostGrievances(NotifyGrievances, NotifyReqs)
  \/ PostDiary(NotifyDiary, NotifyReqs)
  \/ \E r \in DOMAIN reqs : PostGrievancesInsert(r)
  \/ \E r \in DOMAIN reqs : PostDiaryInsert(r)
  \/ \E r \in DOMAIN reqs : Notify(r, OutcomesAll)

SpecNotify == InitBase /\ [][NextNotify]_vars

MediaCalls == {"sendTelegramFileIdWithFallback", "fs.existsSync", "uploadFileToTelegram"}

\* C24: with the channel configured, the notification of a stored Grievance
\* or DiaryNote starts with the relay of the token when there is one, and
\* then never looks at the local blob; else with the local blob when the
\* submission names one, which is uploaded when it exists; else with the
\* text summary.  The text summary is sent, once and last, exactly when one
\* of the media steps failed (the blob missing included) or there was no
\* media, and the response reports the outcome of the last call.
C24_NotificationStrategy ==
  [][\A r \in DOMAIN reqs :
       (/\ r \in DOMAIN reqs'
        /\ reqs[r].route \in {"POST /grievances", "POST /diary"}
        /\ reqs[r].pc = "notify" /\ reqs'[r].pc = "done") =>
         LET b == reqs[r].body
             c == reqs'[r].calls
             fns == {c[n].fn : n \in DOMAIN c}
             token == ~Falsy(b.telegram_file_id)
             local == ~Falsy(b.audio_url) /\ b.audio_url[1][1] = "/uploads/a.ogg"
         IN /\ c # <<>>
            /\ c[1].fn = (IF token THEN "sendTelegramFileIdWithFallback"
                          ELSE IF local THEN "fs.existsSync" ELSE "sendTelegramMessage")
            /\ token => fns \cap {"fs.existsSync", "uploadFileToTelegram"} = {}
            /\ "uploadFileToTelegram" \in fns <=> (~token /\ local /\ c[1].ok)
            /\ "sendTelegramMessage" \in fns <=>
                 \/ ~token /\ ~local
                 \/ \E n \in DOMAIN c : c[n].fn \in MediaCalls /\ ~c[n].ok
            /\ \A n \in DOMAIN c : c[n].fn = "sendTelegramMessage" => n = Len(c)
            /\ \A n \in DOMAIN c : \A m \in DOMAIN c : n # m => c[n].fn # c[m].fn
            /\ reqs'[r].telegram.ok = c[Len(c)].ok]_vars

\* A Grievance with both a token and a local blob was stored; the relay of
\* the token failed, the text summary was sent and delivered, the blob was
\* not looked at, and the response reports the delivery.
C24_Witness ==
  \E r \in DOMAIN reqs :
    /\ reqs[r].route = "POST /grievances"
    /\ reqs[r].pc = "done"
    /\ reqs[r].body.telegram_file_id = Some(<<"FILE1">>)
    /\ reqs[r].body.audio_url = Some(<<"/uploads/a.ogg">>)
    /\ reqs[r].calls = <<Call("sendTelegramFileIdWithFallback", FALSE),
                         Call("sendTelegramMessage", TRUE)>>
    /\ reqs[r].telegram.ok
    /\ reqs[r].id \in DOMAIN grievances

-----------------------------------------------------------------------------
(* The life of a stored record: the chat commands and the HTTP operation   *)
(* that remove records.                                                    *)

LifecyclePolls == 1
LifecycleUpdates == 1
LifecycleReqs == 1

LifecycleInbound ==
  {TextMsg(AdminChat, <<"/confirm_clear">>),
   TextMsg(OtherChat, <<"/confirm_clear">>),
   TextMsg(AdminChat, <<"delete_diary", " ", "0">>)}

NextLifecycle ==
  \/ Tick(LifecyclePolls)
  \/ TgNewUpdate(LifecycleInbound, LifecycleUpdates)
  \/ \E p \in DOMAIN polls : FetchReturn(p)
  \/ \E p \in DOMAIN polls : Loop(p)
  \/ \E p \in DOMAIN polls : ClearDelG(p)
  \/ \E p \in DOMAIN polls : ClearDelM(p)
  \/ \E p \in DOMAIN polls : ClearDelD(p)
  \/ \E p \in DOMAIN polls : DeleteDiaryCmd(p)
  \/ DeleteDiary({<<"0">>}, LifecycleReqs)
  \/ \E r \in DOMAIN reqs : DeleteDiaryDelete(r)

SpecLifecycle == InitSeeded /\ [][NextLifecycle]_vars

\* Run p is in the DELETE named by pc for a /confirm_clear of the admin.
AdminClearAt(p, pc) ==
  /\ polls[p].pc = pc
  /\ HasMsg(updates[polls[p].i])
  /\ FromChatId(updates[polls[p].i]) = TELEGRAM_ADMIN_ID
  /\ MatchesWord(RawText(updates[polls[p].i]), "/confirm_clear")

\* C25: a step after which a stored Grievance is no longer stored is the
\* DELETE FROM grievances of an admin's /confirm_clear, and a step after
\* which a stored Mood is no longer stored is its DELETE FROM moods.
C25_RemovedOnlyByClear ==
  [][/\ (\E id \in DOMAIN grievances : id \notin DOMAIN grievances') =>
          \E p \in DOMAIN polls : AdminClearAt(p, "delG") /\ polls'[p].pc = "delM"
     /\ (\E id \in DOMAIN moods : id \notin DOMAIN moods') =>
          \E p \in DOMAIN polls : AdminClearAt(p, "delM") /\ polls'[p].pc = "delD"]_vars

\* A /confirm_clear of another sender or a delete_diary of the admin was
\* handled and answered, an HTTP delete of a note was served, and the
\* Grievance and the Mood are still stored.
C25_Witness ==
  /\ Len(updates) = 1
  /\ updates[1] # TextMsg(AdminChat, <<"/confirm_clear">>)
  /\ replies[1] # <<>>
  /\ \E r \in DOMAIN reqs :
       /\ reqs[r].route = "DELETE /diary/:id"
       /\ reqs[r].status \in {200, 404}
  /\ DOMAIN grievances = DOMAIN SeedGrievances
  /\ 1 \in DOMAIN moods

-----------------------------------------------------------------------------
(* Replies to stored Grievances, next to records stored before.            *)

SpecImmutable == InitSeeded /\ [][NextReply]_vars

\* C26: from one state to the next, a Grievance that stays stored keeps its
\* username, text, media references and created_at (only reply and
\* replied_at may differ), and a Mood or a DiaryNote that stays stored keeps
\* every field.
C26_ImmutableAfterCreation ==
  [][/\ \A id \in DOMAIN grievances \cap DOMAIN grievances' :
          grievances'[id] = [grievances[id] EXCEPT !.reply = grievances'[id].reply,
                                                   !.replied_at = grievances'[id].replied_at]
     /\ \A id \in DOMAIN moods \cap DOMAIN moods' : moods'[id] = moods[id]
     /\ \A id \in DOMAIN diary_notes \cap DOMAIN diary_notes' :
          diary_notes'[id] = diary_notes[id]]_vars

\* A Grievance was created and then replied to over the chat and over HTTP,
\* a second creation under the same identity was refused, and the Grievance
\* has the fields it was created with; the records stored before are as
\* they were.
C26_Witness ==
  /\ <<"1">> \in DOMAIN grievances
  /\ grievances[<<"1">>] =
       [GrievanceRow(GrievanceBody(User, Some(<<"late", " ", "again">>), Null, Null), 1)
          EXCEPT !.reply = Some(<<"sorry">>), !.replied_at = Some(1)]
  /\ \E k \in DOMAIN replies : replies[k] # <<>> /\ replies[k][1].kind = "reply_recorded"
  /\ \E r \in DOMAIN reqs : reqs[r].route = "POST /grievances/:id/reply" /\ reqs[r].status = 200
  /\ grievances[<<"0">>] = SeedGrievances[<<"0">>]
  /\ moods = SeedMoods
  /\ diary_notes = SeedDiary

-----------------------------------------------------------------------------
(* Replies to two stored Grievances, over the chat and over HTTP.          *)

InterferePolls == 1
InterfereUpdates == 1
InterfereReqs == 1

SeedTwoGrievances ==
  [k \in {<<"0">>, <<"1">>} |->
     GrievanceRow(GrievanceBody(User, Some(<<"late", " ", "again">>), Null, Null), 0)]

InitInterfere ==
  /\ env = EnvConfigured
  /\ setup = "ok"
  /\ clock = 1
  /\ grievances = SeedTwoGrievances
  /\ moods = SeedMoods
  /\ moodSerial = 1
  /\ diary_notes = SeedDiary
  /\ tgUpdateOffset = 0
  /\ updates = <<>>
  /\ polls = <<>>
  /\ dispatched = <<>>
  /\ replies = <<>>
  /\ reqs = <<>>
  /\ gw = IdleGw

InterfereInbound ==
  {TextMsg(AdminChat, <<"reply", " ", "0", " ", "hi">>),
   TextMsg(AdminChat, <<"id:", "1", " ", "yo">>)}

InterfereBodies ==
  {ReplyBody(<<"0">>, Some(<<"hi">>)), ReplyBody(<<"1">>, Some(<<"sorry">>))}

NextInterfere ==
  \/ Tick(InterferePolls)
  \/ TgNewUpdate(InterfereInbound, InterfereUpdates)
  \/ \E p \in DOMAIN polls : FetchReturn(p)
  \/ \E p \in DOMAIN polls : Loop(p)
  \/ \E p \in DOMAIN polls : RecordReply(p)
  \/ PostReply(InterfereBodies, InterfereReqs)
  \/ \E r \in DOMAIN reqs : PostReplyUpdate(r)

SpecInterfere == InitInterfere /\ [][NextInterfere]_vars

\* The reply updates received so far, over the chat and over HTTP: the
\* token each is addressed to, its text, and whether its UPDATE was made.
ReplyOps ==
  {[tok |-> Cmd(updates[k]).id, text |-> Cmd(updates[k]).replyText,
    made |-> \E n \in DOMAIN replies[k] : replies[k][n].kind = "reply_recorded"] :
     k \in {j \in DOMAIN updates : Cmd(updates[j]).cmd = "reply"}}
  \cup
  {[tok |-> reqs[r].body.id, text |-> reqs[r].body.reply[1], made |-> reqs[r].status = 200] :
     r \in {q \in DOMAIN reqs : reqs[q].route = "POST /grievances/:id/reply"
                                /\ ~Falsy(reqs[q].body.reply)}}

-----------------------------------------------------------------------------
(* Creations under one identity (two requests within one millisecond).     *)

ConflictReqs == 2
ConflictPolls == 1
ConflictUpdates == 1

ConflictGrievances ==
  {GrievanceBody(User, Some(<<"late", " ", "again">>), Null, Null),
   GrievanceBody(User, Some(<<"hi">>), Null, Null)}

NextConflict ==
  \/ PostGrievances(ConflictGrievances, ConflictReqs)
  \/ \E r \in DOMAIN reqs : PostGrievancesInsert(r)
  \/ \E r \in DOMAIN reqs : Notify(r, OutcomesOk)
  \/ Tick(ConflictPolls)
  \/ TgNewUpdate(ReplyInbound, ConflictUpdates)
  \/ \E p \in DOMAIN polls : FetchReturn(p)
  \/ \E p \in DOMAIN polls : Loop(p)
  \/ \E p \in DOMAIN polls : RecordReply(p)

SpecConflict == InitBase /\ [][NextConflict]_vars

\* C28: when the INSERT of a creation returns and a record is stored under
\* the request's identity already, the request is answered 500, the stored
\* records are as they were and the process is not exited; and from then on
\* the timer can still start a run and a creation request is still accepted.
C28_ConflictHandled ==
  /\ []((\E r \in DOMAIN reqs :
           reqs[r].route = "POST /grievances" /\ reqs[r].status = 500) =>
          /\ setup = "ok"
          /\ Len(polls) < ConflictPolls => ENABLED Tick(ConflictPolls)
          /\ Len(reqs) < ConflictReqs =>
               ENABLED PostGrievances(ConflictGrievances, ConflictReqs))
  /\ [][\A r \in DOMAIN reqs :
          (/\ reqs[r].route = "POST /grievances"
           /\ reqs[r].pc = "insert" /\ reqs'[r].pc # "insert"
           /\ reqs[r].id \in DOMAIN grievances) =>
            /\ reqs'[r].pc = "done"
            /\ reqs'[r].status = 500
            /\ grievances' = grievances
            /\ setup' = "ok"]_vars

\* Two creations with different texts got the same identity: the first was
\* stored and answered 200, the second was answered 500 and the stored
\* record still has the first text; a run of the poller then recorded a
\* reply for it.
C28_Witness ==
  /\ Len(reqs) = 2
  /\ reqs[1].id = reqs[2].id
  /\ reqs[1].body.text = Some(<<"late", " ", "again">>) /\ reqs[1].status = 200
  /\ reqs[2].body.text = Some(<<"hi">>) /\ reqs[2].status = 500
  /\ grievances[reqs[2].id].text = Some(<<"late", " ", "again">>)
  /\ grievances[reqs[2].id].reply = Some(<<"hi">>)
  /\ \A p \in DOMAIN polls : polls[p].pc = "done"

\* C29: a creation request that gets its 400 or its 500 has made no call to
\* the messaging channel and the step leaves every table as it was; and a
\* step in which a creation request makes calls to the messaging channel is
\* taken after its INSERT, with its record stored under its identity.
C29_NotifyOnlyAfterInsert ==
  [][\A r \in DOMAIN reqs' :
       LET new == r \notin DOMAIN reqs
       IN (reqs'[r].route \in {"POST /grievances", "POST /diary", "POST /mood"}) =>
            /\ (reqs'[r].status \in {400, 500} /\ (new \/ reqs[r].status = 0)) =>
                 /\ reqs'[r].pc = "done"
                 /\ reqs'[r].calls = <<>>
                 /\ reqs'[r].telegram = NoResult
                 /\ <<grievances, moods, moodSerial, diary_notes>>' =
                      <<grievances, moods, moodSerial, diary_notes>>
            /\ (reqs'[r].calls # <<>>) =>
                 /\ ~new
                 /\ reqs'[r].status = 200
                 /\ reqs[r].calls = <<>> =>
                      KeyOf(r) \in DOMAIN TableOf(reqs[r].route)]_vars

\* With the channel configured, a Mood outside the range was answered 400
\* without any call to the channel and without a record.
C29_Witness ==
  /\ env.TELEGRAM_BOT_TOKEN # "" /\ env.TELEGRAM_CHAT_ID # ""
  /\ \E r \in DOMAIN reqs :
       /\ reqs[r].route = "POST /mood"
       /\ reqs[r].body.value = Some(JsNum(11))
       /\ reqs[r].status = 400
       /\ reqs[r].calls = <<>>
  /\ moods = EmptyTable

-----------------------------------------------------------------------------
(* The reply command from the admin and from another sender.               *)

OpenReplyPolls == 2
OpenReplyUpdates == 1

OpenReplyInbound ==
  {TextMsg(AdminChat, <<"reply", " ", "0", " ", "hi">>),
   TextMsg(OtherChat, <<"reply", " ", "0", " ", "hi">>),
   TextMsg(OtherChat, <<"id#", "9", " ", "hi">>)}

NextOpenReply ==
  \/ Tick(OpenReplyPolls)
  \/ TgNewUpdate(OpenReplyInbound, OpenReplyUpdates)
  \/ \E p \in DOMAIN polls : FetchReturn(p)
  \/ \E p \in DOMAIN polls : Loop(p)
  \/ \E p \in DOMAIN polls : RecordReply(p)

SpecOpenReply == InitSeeded /\ [][NextOpenReply]_vars

\* The text of update k reads as a reply command (either form).
ReadsAsReply(k) ==
  HasMsg(updates[k])
  /\ (ReplyMatch(RawText(updates[k])).ok \/ IdMatch(RawText(updates[k])).ok)

\* The token and the text of the reply command of update k.
ReplyParts(k) ==
  IF ReplyMatch(RawText(updates[k])).ok
  THEN ReplyMatch(RawText(updates[k])) ELSE IdMatch(RawText(updates[k]))

\* C30: a reply command that was dispatched is, whoever sent it, either in
\* its UPDATE or answered; and when its UPDATE returns, the change to the
\* store and the reply are fixed by the command text and the store alone
\* (recorded with the text, not found, or failed), the reply going to the
\* sender: they are what the admin gets for the same text.
C30_ReplyOpenToAnyone ==
  /\ [](\A k \in DOMAIN updates :
          (ReadsAsReply(k) /\ dispatched[k] >= 1) =>
            \/ replies[k] # <<>>
            \/ \E p \in DOMAIN polls : polls[p].i = k /\ polls[p].pc = "update")
  /\ [][\A p \in DOMAIN polls :
          (polls[p].pc = "update" /\ polls'[p].pc # "update") =>
            LET k == polls[p].i
                c == ReplyParts(k)
                m == replies'[k][Len(replies'[k])]
            IN /\ Len(replies'[k]) = Len(replies[k]) + 1
               /\ m = [Msg(TELEGRAM_ADMIN_ID, m.kind, c.id, m.text, <<0, 0, 0>>)
                         EXCEPT !.to = FromChatId(updates[k])]
               /\ \/ /\ m.kind = "reply_recorded"
                     /\ m.text = c.replyText
                     /\ c.id \in DOMAIN grievances
                     /\ grievances' = [grievances EXCEPT ![c.id].reply = Some(c.replyText),
                                                         ![c.id].replied_at = Some(clock)]
                  \/ /\ m.kind = "grievance_not_found"
                     /\ m.text = <<>>
                     /\ c.id \notin DOMAIN grievances
                     /\ grievances' = grievances
                  \/ /\ m.kind = "reply_failed"
                     /\ m.text = <<>>
                     /\ grievances' = grievances]_vars

\* A sender other than the admin sent a reply command for Grievance 0: the
\* reply was recorded and the sender got the echo the admin gets.
C30_Witness ==
  /\ updates = <<TextMsg(OtherChat, <<"reply", " ", "0", " ", "hi">>)>>
  /\ replies[1] # <<>>
  /\ replies[1][1] = [Msg(AdminChat, "reply_recorded", <<"0">>, <<"hi">>, <<0, 0, 0>>)
                        EXCEPT !.to = OtherChat]
  /\ grievances[<<"0">>].reply = Some(<<"hi">>)
  /\ ~IsNull(grievances[<<"0">>].replied_at)

-----------------------------------------------------------------------------
(* Updates that carry an edited message.                                   *)

EditPolls == 1
EditUpdates == 2

\* An update whose edited_message field carries the text (no message field).
EditedMsg(chat, text) == [TextMsg(chat, text) EXCEPT !.kind = "edited_message"]

EditInbound ==
  {TextMsg(AdminChat, <<"/confirm_clear">>),
   EditedMsg(AdminChat, <<"/confirm_clear">>),
   EditedMsg(OtherChat, <<"reply", " ", "0", " ", "hi">>)}

NextEdit ==
  \/ Tick(EditPolls)
  \/ TgNewUpdate(EditInbound, EditUpdates)
  \/ \E p \in DOMAIN polls : FetchReturn(p)
  \/ \E p \in DOMAIN polls : Loop(p)
  \/ \E p \in DOMAIN polls : ClearDelG(p)
  \/ \E p \in DOMAIN polls : ClearDelM(p)
  \/ \E p \in DOMAIN polls : ClearDelD(p)
  \/ \E p \in DOMAIN polls : RecordReply(p)

\* One Grievance in the store, no Mood and no DiaryNote.
InitEdit ==
  /\ env = EnvConfigured
  /\ setup = "ok"
  /\ clock = 1
  /\ grievances = SeedGrievances
  /\ moods = EmptyTable
  /\ moodSerial = 0
  /\ diary_notes = EmptyTable
  /\ tgUpdateOffset = 0
  /\ updates = <<>>
  /\ polls = <<>>
  /\ dispatched = <<>>
  /\ replies = <<>>
  /\ reqs = <<>>
  /\ gw = IdleGw

SpecEdit == InitEdit /\ [][NextEdit]_vars

\* Update k carries a text, as a new or as an edited message, that reads
\* as the command cmd.
CarriesCommand(k, cmd) ==
  /\ updates[k].kind \in {"message", "edited_message"}
  /\ Classify(RawText(updates[k])).cmd = cmd

\* C31: a run never passes over an update whose message, new or edited,
\* reads as /confirm_clear or as a reply command: it stops at it and starts
\* the same handling for both kinds (the three DELETEs for the admin, the
\* not-authorized answer for anyone else, the UPDATE for a reply); and the
\* handling ends the same for both kinds: the "Deleted" answer leaves the
\* three stores empty, the recorded reply is on the Grievance.
C31_EditedHandledAsNew ==
  /\ [][\A p \in DOMAIN polls : \A k \in DOMAIN updates :
          (polls[p].pc = "loop" /\ polls[p].i < k /\ k <= polls'[p].i) =>
            /\ CarriesCommand(k, "confirm_clear") =>
                 /\ polls'[p].i = k
                 /\ IF FromChatId(updates[k]) = TELEGRAM_ADMIN_ID
                    THEN polls'[p].pc = "delG" /\ replies'[k] = replies[k]
                    ELSE /\ polls'[p].pc = "loop"
                         /\ replies'[k] = Append(replies[k],
                              Plain(FromChatId(updates[k]), "not_authorized_clear"))
            /\ CarriesCommand(k, "reply") =>
                 /\ polls'[p].i = k
                 /\ polls'[p].pc = "update"
                 /\ replies'[k] = replies[k]]_vars
  /\ [][\A k \in DOMAIN updates :
          Len(replies'[k]) > Len(replies[k]) =>
            LET m == replies'[k][Len(replies'[k])]
                c == Classify(RawText(updates[k]))
            IN /\ m.to = FromChatId(updates[k])
               /\ m.kind = "deleted" =>
                    /\ CarriesCommand(k, "confirm_clear")
                    /\ grievances' = EmptyTable
                    /\ moods' = EmptyTable
                    /\ diary_notes' = EmptyTable
               /\ m.kind = "reply_recorded" =>
                    /\ CarriesCommand(k, "reply")
                    /\ grievances'[c.id].reply = Some(c.replyText)]_vars

\* The admin sent /confirm_clear and then edited it: the edit came as a
\* second update and both were carried out, the second on the emptied stores.
C31_Witness ==
  /\ updates = <<TextMsg(AdminChat, <<"/confirm_clear">>),
                 EditedMsg(AdminChat, <<"/confirm_clear">>)>>
  /\ replies[1] # <<>>
  /\ replies[2] # <<>>
  /\ replies[1][1].kind = "deleted"
  /\ replies[2][1] = Msg(AdminChat, "deleted", <<>>, <<>>, <<0, 0, 0>>)

-----------------------------------------------------------------------------
(* The order of the three DELETEs of a bulk clear.                         *)

ClearOrderPolls == 1
ClearOrderUpdates == 2

ClearOrderInbound ==
  {TextMsg(AdminChat, <<"/confirm_clear">>),
   TextMsg(OtherChat, <<"/confirm_clear">>)}

NextClearOrder ==
  \/ Tick(ClearOrderPolls)
  \/ TgNewUpdate(ClearOrderInbound, ClearOrderUpdates)
  \/ \E p \in DOMAIN polls : FetchReturn(p)
  \/ \E p \in DOMAIN polls : Loop(p)
  \/ \E p \in DOMAIN polls : ClearDelG(p)
  \/ \E p \in DOMAIN polls : ClearDelM(p)
  \/ \E p \in DOMAIN polls : ClearDelD(p)

SpecClearOrder == InitSeeded /\ [][NextClearOrder]_vars

\* Run p, in the DELETE named by pc, takes a step: either the DELETE
\* succeeded, the table is empty and the run is in the DELETE named by next
\* (back in the loop with the "Deleted" answer after the last one), or it
\* failed, the table is as it was, the failure is answered and the run is
\* back in the loop.
DeleteStep(p, pc, next, table, tableAfter) ==
  (polls[p].pc = pc /\ polls'[p] # polls[p]) =>
    LET k == polls[p].i
        m == replies'[k][Len(replies'[k])]
    IN \/ /\ tableAfter = EmptyTable
          /\ polls'[p].pc = next
          /\ IF next = "loop"
             THEN Len(replies'[k]) = Len(replies[k]) + 1 /\ m.kind = "deleted"
             ELSE replies' = replies
       \/ /\ tableAfter = table
          /\ polls'[p].pc = "loop"
          /\ Len(replies'[k]) = Len(replies[k]) + 1
          /\ m.kind = "delete_failed"

\* C32: one /confirm_clear issues DELETE FROM grievances, then moods, then
\* diary_notes, each after the one before it succeeded, and issues no
\* further DELETE after one failed; a DELETE touches its own table only.  So
\* no DELETE of a later kind is made after the DELETE of an earlier kind
\* failed: while Grievances are retained the Moods and DiaryNotes are, and
\* while Moods are retained the DiaryNotes are.
C32_ClearOrderStopsAtFailure ==
  /\ [][\A p \in DOMAIN polls :
          /\ DeleteStep(p, "delG", "delM", grievances, grievances')
          /\ DeleteStep(p, "delM", "delD", moods, moods')
          /\ DeleteStep(p, "delD", "loop", diary_notes, diary_notes')
          /\ (polls'[p].pc = "delG" /\ polls[p].pc # "delG") => polls[p].pc = "loop"
          /\ (polls'[p].pc = "delM" /\ polls[p].pc # "delM") => polls[p].pc = "delG"
          /\ (polls'[p].pc = "delD" /\ polls[p].pc # "delD") => polls[p].pc = "delM"]_vars
  /\ [][/\ grievances' # grievances => \E p \in DOMAIN polls :
             polls[p].pc = "delG" /\ polls'[p].pc = "delM"
        /\ moods' # moods => \E p \in DOMAIN polls :
             polls[p].pc = "delM" /\ polls'[p].pc = "delD"
        /\ diary_notes' # diary_notes => \E p \in DOMAIN polls :
             polls[p].pc = "delD" /\ polls'[p].pc = "loop"]_vars
  /\ [](/\ grievances # EmptyTable => moods = SeedMoods /\ diary_notes = SeedDiary
        /\ moods # EmptyTable => diary_notes = SeedDiary)

\* The /confirm_clear of the admin deleted the Grievances, its DELETE of the
\* Moods failed: the failure was answered and the run is back in its loop
\* with the Moods and the DiaryNotes retained.
C32_Witness ==
  /\ Len(updates) = 1
  /\ replies[1] # <<>>
  /\ replies[1][1].kind = "delete_failed"
  /\ \A p \in DOMAIN polls : polls[p].pc \notin ClearPcs
  /\ grievances = EmptyTable
  /\ moods = SeedMoods
  /\ diary_notes = SeedDiary

=============================================================================
